---------------------------- MODULE Spec2Model ----------------------------
(***************************************************************************)
(* A model of the JWT inspector and of the token listings of the OAuth    *)
(* terminal client (python-tui/oauth_tui).                                 *)
(*                                                                         *)
(* Text is modelled by TLA+ strings (TLC evaluates Len, SubSeq and \o on   *)
(* them), bytes by numbers 0..255, JSON values by tagged records:          *)
(*   [t |-> "obj", o |-> function from key strings to values]              *)
(*   [t |-> "arr", a |-> sequence of values]                               *)
(*   [t |-> "str", s |-> string]     [t |-> "int", n |-> integer]          *)
(*   [t |-> "bool", b |-> BOOLEAN]   [t |-> "null"]                        *)
(*   [t |-> "float", m |-> mantissa, e |-> decimal exponent, sp |-> kind]  *)
(* A call that can raise returns [ok |-> TRUE, v |-> value] or             *)
(* [ok |-> FALSE, exc |-> exception class, msg |-> str(exception)].        *)
(***************************************************************************)
EXTENDS Integers, Sequences, FiniteSets, TLC

(***************************************************************************)
(* Results of calls that may raise.                                        *)
(***************************************************************************)
Ok(val) == [ok |-> TRUE, v |-> val]

Raise(cls, text) == [ok |-> FALSE, exc |-> cls, msg |-> text]

(***************************************************************************)
(* Characters.  The model's text is printable ASCII (codes 32..126, the    *)
(* grave accent 96 excepted: a TLA+ string cannot hold it) plus the JSON   *)
(* white space \t \n \r; any other code point is kept as the text          *)
(* "\u<decimal code>" when it ends up inside a JSON string.                *)
(***************************************************************************)
PrintableLow == " !\"#$%&'()*+,-./0123456789:;<=>?@ABCDEFGHIJKLMNOPQRSTUVWXYZ[\\]^_"

PrintableHigh == "abcdefghijklmnopqrstuvwxyz{|}~"

CharAt(s, i) == SubSeq(s, i, i)

CharCodes == (32..126) \ {96}

Chr(n) ==
  IF n >= 32 /\ n <= 95 THEN CharAt(PrintableLow, n - 31)
  ELSE IF n >= 97 /\ n <= 126 THEN CharAt(PrintableHigh, n - 96)
  ELSE IF n = 9 THEN "\t"
  ELSE IF n = 10 THEN "\n"
  ELSE IF n = 13 THEN "\r"
  ELSE "\\u" \o ToString(n)

OrdTable == [n \in CharCodes |-> Chr(n)]

OrdFn == [c \in {OrdTable[n] : n \in CharCodes} |-> CHOOSE n \in CharCodes : OrdTable[n] = c]

Ord(c) == OrdFn[c]

(***************************************************************************)
(* base64.urlsafe_b64decode: '-' and '_' are translated to '+' and '/',    *)
(* then binascii.a2b_base64 runs in its default, non-strict mode: a        *)
(* character outside the alphabet is skipped, a pad ends the input once    *)
(* the quad it closes is complete, and data left in an open quad is an     *)
(* error.                                                                  *)
(***************************************************************************)
B64Alphabet == "ABCDEFGHIJKLMNOPQRSTUVWXYZabcdefghijklmnopqrstuvwxyz0123456789+/"

B64Table ==
  [n \in CharCodes |->
     LET c == OrdTable[n]
         u == IF c = "-" THEN "+" ELSE IF c = "_" THEN "/" ELSE c
         hits == {k \in 1..64 : CharAt(B64Alphabet, k) = u}
     IN IF hits = {} THEN 64 ELSE (CHOOSE k \in hits : TRUE) - 1]

B64Value(c) == B64Table[Ord(c)]

(* One turn of a2b_base64's loop over the input, on character c. *)
a2b_step(st, c) ==
  IF st.done THEN st
  ELSE IF c = "="
  THEN IF st.quad_pos >= 2 /\ st.quad_pos + st.pads + 1 >= 4
       THEN [st EXCEPT !.done = TRUE]
       ELSE IF st.quad_pos >= 2 THEN [st EXCEPT !.pads = @ + 1] ELSE st
  ELSE LET this_ch == B64Value(c) IN
       IF this_ch >= 64 THEN st
       ELSE CASE st.quad_pos = 0 ->
                   [st EXCEPT !.quad_pos = 1, !.leftchar = this_ch, !.pads = 0]
              [] st.quad_pos = 1 ->
                   [st EXCEPT !.quad_pos = 2, !.leftchar = this_ch % 16, !.pads = 0,
                              !.out = Append(@, st.leftchar * 4 + (this_ch \div 16))]
              [] st.quad_pos = 2 ->
                   [st EXCEPT !.quad_pos = 3, !.leftchar = this_ch % 4, !.pads = 0,
                              !.out = Append(@, st.leftchar * 16 + (this_ch \div 4))]
              [] OTHER ->
                   [st EXCEPT !.quad_pos = 0, !.leftchar = 0, !.pads = 0,
                              !.out = Append(@, st.leftchar * 64 + this_ch)]

(* The loop over s[lo..hi], left to right (split in halves to keep the *)
(* evaluation shallow).                                                *)
RECURSIVE a2b_loop(_, _, _, _)
a2b_loop(s, lo, hi, st) ==
  IF lo > hi THEN st
  ELSE IF lo = hi THEN a2b_step(st, CharAt(s, lo))
  ELSE LET mid == (lo + hi) \div 2
           left == a2b_loop(s, lo, mid, st)
       IN IF left.done THEN left ELSE a2b_loop(s, mid + 1, hi, left)

a2b_base64(s) ==
  LET st == a2b_loop(s, 1, Len(s),
                     [quad_pos |-> 0, leftchar |-> 0, pads |-> 0, out |-> << >>,
                      done |-> FALSE])
  IN IF st.done \/ st.quad_pos = 0 THEN Ok(st.out)
     ELSE IF st.quad_pos = 1
     THEN Raise("binascii.Error",
                "Invalid base64-encoded string: number of data characters ("
                \o ToString((Len(st.out) \div 3) * 4 + 1)
                \o ") cannot be 1 more than a multiple of 4")
     ELSE Raise("binascii.Error", "Incorrect padding")

urlsafe_b64decode(s) == a2b_base64(s)

(***************************************************************************)
(* bytes.decode("utf-8"), strict: the sequence of code points, or          *)
(* UnicodeDecodeError at the first ill-formed sequence.  The decoder state *)
(* holds the code point under construction (cp), the continuation bytes it *)
(* still needs (need) and the range the next one must lie in (lo..hi).     *)
(***************************************************************************)
utf8_step(st, b, at) ==
  IF st.err >= 0 THEN st
  ELSE IF st.need > 0
  THEN IF b >= st.lo /\ b <= st.hi
       THEN IF st.need = 1
            THEN [st EXCEPT !.need = 0, !.cp = 0, !.lo = 128, !.hi = 191,
                            !.out = Append(@, st.cp * 64 + (b - 128))]
            ELSE [st EXCEPT !.need = @ - 1, !.cp = st.cp * 64 + (b - 128),
                            !.lo = 128, !.hi = 191]
       ELSE [st EXCEPT !.err = st.start]
  ELSE IF b < 128 THEN [st EXCEPT !.out = Append(@, b)]
  ELSE IF b >= 194 /\ b <= 223
  THEN [st EXCEPT !.need = 1, !.cp = b - 192, !.lo = 128, !.hi = 191, !.start = at]
  ELSE IF b >= 224 /\ b <= 239
  THEN [st EXCEPT !.need = 2, !.cp = b - 224, !.start = at,
                  !.lo = IF b = 224 THEN 160 ELSE 128,
                  !.hi = IF b = 237 THEN 159 ELSE 191]
  ELSE IF b >= 240 /\ b <= 244
  THEN [st EXCEPT !.need = 3, !.cp = b - 240, !.start = at,
                  !.lo = IF b = 240 THEN 144 ELSE 128,
                  !.hi = IF b = 244 THEN 143 ELSE 191]
  ELSE [st EXCEPT !.err = at]

RECURSIVE utf8_loop(_, _, _, _)
utf8_loop(bs, lo, hi, st) ==
  IF lo > hi THEN st
  ELSE IF lo = hi THEN utf8_step(st, bs[lo], lo - 1)
  ELSE LET mid == (lo + hi) \div 2
           left == utf8_loop(bs, lo, mid, st)
       IN IF left.err >= 0 THEN left ELSE utf8_loop(bs, mid + 1, hi, left)

utf8_decode(bs) ==
  LET st == utf8_loop(bs, 1, Len(bs),
                      [out |-> << >>, need |-> 0, cp |-> 0, lo |-> 128, hi |-> 191,
                       start |-> 0, err |-> -1])
      at == IF st.err >= 0 THEN st.err ELSE st.start
  IN IF st.err >= 0 \/ st.need > 0
     THEN Raise("UnicodeDecodeError",
                "'utf-8' codec can't decode byte in position " \o ToString(at))
     ELSE Ok(st.out)

(***************************************************************************)
(* json.loads on the decoded text cs (a sequence of code points).  The     *)
(* scanner returns [ok |-> TRUE, v |-> value, i |-> index after the value] *)
(* or [ok |-> FALSE, msg, pos]; pos is the 0-based offset json reports.    *)
(* Integers are exact within TLC's integer range; a number with a fraction *)
(* or an exponent is kept as mantissa m and decimal exponent e.            *)
(***************************************************************************)
JOk(val, nxt) == [ok |-> TRUE, v |-> val, i |-> nxt]

JErr(text, at) == [ok |-> FALSE, msg |-> text, pos |-> at]

Null == [t |-> "null"]

StrV(text) == [t |-> "str", s |-> text]

IntV(num) == [t |-> "int", n |-> num]

BoolV(flag) == [t |-> "bool", b |-> flag]

ArrV(items) == [t |-> "arr", a |-> items]

ObjV(map) == [t |-> "obj", o |-> map]

FloatV(mant, ex) == [t |-> "float", m |-> mant, e |-> ex, sp |-> "finite"]

SpecialFloat(kind) == [t |-> "float", m |-> 0, e |-> 0, sp |-> kind]

EmptyDict == [k \in {} |-> Null]

WHITESPACE == {Ord(" "), 9, 10, 13}

IsDigit(c) == c >= Ord("0") /\ c <= Ord("9")

IsWs(cs, i) == i <= Len(cs) /\ cs[i] \in WHITESPACE

SkipWs(cs, i) ==
  CHOOSE j \in i..(Len(cs) + 1) : /\ ~IsWs(cs, j)
                                  /\ \A k \in i..(j - 1) : IsWs(cs, k)

DigitsEnd(cs, i) ==
  CHOOSE j \in i..(Len(cs) + 1) : /\ ~(j <= Len(cs) /\ IsDigit(cs[j]))
                                  /\ \A k \in i..(j - 1) : IsDigit(cs[k])

StartsWith(cs, i, word) ==
  /\ i + Len(word) - 1 <= Len(cs)
  /\ \A k \in 1..Len(word) : cs[i + k - 1] = Ord(CharAt(word, k))

RECURSIVE DigitsValue(_, _, _, _)
DigitsValue(cs, i, j, acc) ==
  IF i >= j THEN acc ELSE DigitsValue(cs, i + 1, j, acc * 10 + (cs[i] - Ord("0")))

RECURSIVE Pow10(_)
Pow10(n) == IF n <= 0 THEN 1 ELSE 10 * Pow10(n - 1)

RECURSIVE NormFloat(_, _)
NormFloat(mant, ex) ==
  IF mant = 0 THEN FloatV(0, 0)
  ELSE IF mant % 10 = 0 THEN NormFloat(mant \div 10, ex + 1)
  ELSE FloatV(mant, ex)

HexVal(c) ==
  IF IsDigit(c) THEN c - Ord("0")
  ELSE IF c >= Ord("a") /\ c <= Ord("f") THEN c - Ord("a") + 10
  ELSE IF c >= Ord("A") /\ c <= Ord("F") THEN c - Ord("A") + 10
  ELSE 16

Hex4(cs, i) ==
  IF i + 3 > Len(cs) \/ \E k \in 0..3 : HexVal(cs[i + k]) = 16 THEN -1
  ELSE HexVal(cs[i]) * 4096 + HexVal(cs[i + 1]) * 256 + HexVal(cs[i + 2]) * 16
       + HexVal(cs[i + 3])

BACKSLASH ==
  [c \in {Ord("\""), Ord("\\"), Ord("/"), Ord("b"), Ord("f"), Ord("n"), Ord("r"), Ord("t")} |->
     IF c = Ord("b") THEN 8
     ELSE IF c = Ord("f") THEN 12
     ELSE IF c = Ord("n") THEN 10
     ELSE IF c = Ord("r") THEN 13
     ELSE IF c = Ord("t") THEN 9
     ELSE c]

RECURSIVE scanstring(_, _, _, _)
scanstring(cs, i, begin, acc) ==
  IF i > Len(cs) THEN JErr("Unterminated string starting at", begin)
  ELSE LET c == cs[i] IN
       IF c = Ord("\"") THEN JOk(acc, i + 1)
       ELSE IF c < 32 THEN JErr("Invalid control character at", i - 1)
       ELSE IF c # Ord("\\") THEN scanstring(cs, i + 1, begin, acc \o Chr(c))
       ELSE IF i + 1 > Len(cs) THEN JErr("Unterminated string starting at", begin)
       ELSE LET esc == cs[i + 1] IN
            IF esc # Ord("u")
            THEN IF esc \in DOMAIN BACKSLASH
                 THEN scanstring(cs, i + 2, begin, acc \o Chr(BACKSLASH[esc]))
                 ELSE JErr("Invalid \\escape", i - 1)
            ELSE LET uni == Hex4(cs, i + 2) IN
                 IF uni < 0 THEN JErr("Invalid \\uXXXX escape", i)
                 ELSE LET uni2 == IF /\ uni >= 55296 /\ uni <= 56319
                                     /\ StartsWith(cs, i + 6, "\\u")
                                  THEN Hex4(cs, i + 8) ELSE -1
                      IN IF uni2 >= 56320 /\ uni2 <= 57343
                         THEN scanstring(cs, i + 12, begin,
                                acc \o Chr(65536 + (uni - 55296) * 1024 + (uni2 - 56320)))
                         ELSE scanstring(cs, i + 6, begin, acc \o Chr(uni))

(***************************************************************************)
(* NUMBER_RE matched at i: an optional minus, then 0 or a digit run that   *)
(* starts with 1-9 (from d0, ending before d1), then optionally a point    *)
(* and digits (ending before f1), then optionally e or E, an optional sign *)
(* and digits (ending before e1).  Each stage hands the index it found to  *)
(* the next.                                                               *)
(***************************************************************************)
NumberValue(cs, i, d0, d1, f1, e1) ==
  LET sign == IF d0 > i THEN -1 ELSE 1
      fracLen == IF f1 > d1 THEN f1 - (d1 + 1) ELSE 0
      fracPart == IF f1 > d1 THEN DigitsValue(cs, d1 + 1, f1, 0) ELSE 0
      e0 == IF cs[f1 + 1] \in {Ord("+"), Ord("-")} THEN f1 + 2 ELSE f1 + 1
      expo == IF e1 > f1
              THEN (IF cs[f1 + 1] = Ord("-") THEN -1 ELSE 1) * DigitsValue(cs, e0, e1, 0)
              ELSE 0
  IN IF e1 = d1 THEN JOk(IntV(sign * DigitsValue(cs, d0, d1, 0)), d1)
     ELSE JOk(NormFloat(sign * (DigitsValue(cs, d0, d1, 0) * Pow10(fracLen) + fracPart),
                        expo - fracLen), e1)

NumberExp(cs, i, d0, d1, f1) ==
  LET hasE == f1 <= Len(cs) /\ cs[f1] \in {Ord("e"), Ord("E")}
      signed == f1 + 1 <= Len(cs) /\ cs[f1 + 1] \in {Ord("+"), Ord("-")}
      e0 == IF signed THEN f1 + 2 ELSE f1 + 1
  IN NumberValue(cs, i, d0, d1, f1,
                 IF hasE /\ e0 <= Len(cs) /\ IsDigit(cs[e0]) THEN DigitsEnd(cs, e0) ELSE f1)

NumberFrac(cs, i, d0, d1) ==
  NumberExp(cs, i, d0, d1,
            IF d1 + 1 <= Len(cs) /\ cs[d1] = Ord(".") /\ IsDigit(cs[d1 + 1])
            THEN DigitsEnd(cs, d1 + 1) ELSE d1)

NumberInt(cs, i, d0) ==
  IF ~(d0 <= Len(cs) /\ IsDigit(cs[d0])) THEN JErr("no match", i - 1)
  ELSE NumberFrac(cs, i, d0, IF cs[d0] = Ord("0") THEN d0 + 1 ELSE DigitsEnd(cs, d0))

match_number(cs, i) ==
  NumberInt(cs, i, IF i <= Len(cs) /\ cs[i] = Ord("-") THEN i + 1 ELSE i)

(* A property name and its colon, entered with q at the opening quote: *)
(* the key and the index of the value that follows.                    *)
KeyColon(cs, k, c0) ==
  IF c0 <= Len(cs) /\ cs[c0] = Ord(":") THEN JOk(k.v, SkipWs(cs, c0 + 1))
  ELSE JErr("Expecting ':' delimiter", c0 - 1)

KeyEnd(cs, k) == IF ~k.ok THEN k ELSE KeyColon(cs, k, SkipWs(cs, k.i))

scan_key(cs, q) == KeyEnd(cs, scanstring(cs, q + 1, q - 1, ""))

(* A value that holds no other value, at i. *)
StrAtom(r) == IF r.ok THEN JOk(StrV(r.v), r.i) ELSE r

NumberAtom(cs, i, m) ==
  IF m.ok THEN m
  ELSE IF StartsWith(cs, i, "NaN") THEN JOk(SpecialFloat("nan"), i + 3)
  ELSE IF StartsWith(cs, i, "Infinity") THEN JOk(SpecialFloat("inf"), i + 8)
  ELSE IF StartsWith(cs, i, "-Infinity") THEN JOk(SpecialFloat("-inf"), i + 9)
  ELSE JErr("Expecting value", i - 1)

scan_atom(cs, i) ==
  IF cs[i] = Ord("\"") THEN StrAtom(scanstring(cs, i + 1, i - 1, ""))
  ELSE IF StartsWith(cs, i, "null") THEN JOk(Null, i + 4)
  ELSE IF StartsWith(cs, i, "true") THEN JOk(BoolV(TRUE), i + 4)
  ELSE IF StartsWith(cs, i, "false") THEN JOk(BoolV(FALSE), i + 5)
  ELSE NumberAtom(cs, i, match_number(cs, i))

(***************************************************************************)
(* scan_once with the nesting of JSONObject and JSONArray kept on an       *)
(* explicit stack: a frame is an object under construction (its pairs so   *)
(* far and the key whose value is being read) or an array under            *)
(* construction (its items so far).  In mode "value" a value is expected   *)
(* at st.i; in mode "after" the value st.val has just ended before st.i.   *)
(***************************************************************************)
ScanFail(st, e) == [st EXCEPT !.mode = "error", !.msg = e.msg, !.pos = e.pos]

(* The first or next pair of an object whose pairs so far are acc: q is *)
(* where its property name must start, k the name once scanned.         *)
PushPair(st, below, acc, k) ==
  IF ~k.ok THEN ScanFail(st, k)
  ELSE [st EXCEPT !.mode = "value", !.i = k.i,
                  !.stack = Append(below, [kind |-> "obj", pairs |-> acc, key |-> k.v])]

NextPair(cs, st, below, acc, q) ==
  IF q <= Len(cs) /\ cs[q] = Ord("\"") THEN PushPair(st, below, acc, scan_key(cs, q))
  ELSE ScanFail(st, JErr("Expecting property name enclosed in double quotes", q - 1))

OpenObject(cs, st, q) ==
  IF q <= Len(cs) /\ cs[q] = Ord("}")
  THEN [st EXCEPT !.mode = "after", !.val = ObjV(EmptyDict), !.i = q + 1]
  ELSE NextPair(cs, st, st.stack, EmptyDict, q)

OpenArray(cs, st, q) ==
  IF q <= Len(cs) /\ cs[q] = Ord("]")
  THEN [st EXCEPT !.mode = "after", !.val = ArrV(<< >>), !.i = q + 1]
  ELSE [st EXCEPT !.i = q, !.stack = Append(@, [kind |-> "arr", items |-> << >>])]

AtomValue(st, r) ==
  IF ~r.ok THEN ScanFail(st, r)
  ELSE [st EXCEPT !.mode = "after", !.val = r.v, !.i = r.i]

ScanValue(cs, st) ==
  IF st.i > Len(cs) THEN ScanFail(st, JErr("Expecting value", st.i - 1))
  ELSE IF cs[st.i] = Ord("{") THEN OpenObject(cs, st, SkipWs(cs, st.i + 1))
  ELSE IF cs[st.i] = Ord("[") THEN OpenArray(cs, st, SkipWs(cs, st.i + 1))
  ELSE AtomValue(st, scan_atom(cs, st.i))

AfterPair(cs, st, below, acc, n0) ==
  IF n0 <= Len(cs) /\ cs[n0] = Ord("}")
  THEN [st EXCEPT !.val = ObjV(acc), !.i = n0 + 1, !.stack = below]
  ELSE IF n0 <= Len(cs) /\ cs[n0] = Ord(",")
  THEN NextPair(cs, st, below, acc, SkipWs(cs, n0 + 1))
  ELSE ScanFail(st, JErr("Expecting ',' delimiter", n0 - 1))

AfterItem(cs, st, below, acc, n0) ==
  IF n0 <= Len(cs) /\ cs[n0] = Ord("]")
  THEN [st EXCEPT !.val = ArrV(acc), !.i = n0 + 1, !.stack = below]
  ELSE IF n0 <= Len(cs) /\ cs[n0] = Ord(",")
  THEN [st EXCEPT !.mode = "value", !.i = SkipWs(cs, n0 + 1),
                  !.stack = Append(below, [kind |-> "arr", items |-> acc])]
  ELSE ScanFail(st, JErr("Expecting ',' delimiter", n0 - 1))

AfterValue(cs, st, top, below) ==
  IF top.kind = "obj"
  THEN AfterPair(cs, st, below, (top.key :> st.val) @@ top.pairs, SkipWs(cs, st.i))
  ELSE AfterItem(cs, st, below, Append(top.items, st.val), SkipWs(cs, st.i))

ScanAfter(cs, st) ==
  IF st.stack = << >> THEN [st EXCEPT !.mode = "done"]
  ELSE AfterValue(cs, st, st.stack[Len(st.stack)], SubSeq(st.stack, 1, Len(st.stack) - 1))

RECURSIVE ScanRun(_, _)
ScanRun(cs, st) ==
  IF st.mode \in {"value", "after"}
  THEN ScanRun(cs, IF st.mode = "value" THEN ScanValue(cs, st) ELSE ScanAfter(cs, st))
  ELSE st

ScanResult(st) == IF st.mode = "done" THEN JOk(st.val, st.i) ELSE JErr(st.msg, st.pos)

scan_once(cs, i) ==
  ScanResult(ScanRun(cs, [mode |-> "value", i |-> i, stack |-> << >>, val |-> Null,
                          msg |-> "", pos |-> 0]))

(* JSONDecoder.decode: raw_decode, then nothing but white space may follow. *)
DecodeEnd(cs, r, end) ==
  IF end # Len(cs) + 1
  THEN Raise("JSONDecodeError", "Extra data: char " \o ToString(end - 1))
  ELSE Ok(r.v)

Decode(cs, r) ==
  IF ~r.ok THEN Raise("JSONDecodeError", r.msg \o ": char " \o ToString(r.pos))
  ELSE DecodeEnd(cs, r, SkipWs(cs, r.i))

json_loads(cs) == Decode(cs, scan_once(cs, SkipWs(cs, 1)))

(***************************************************************************)
(* Python values: truth value, type name, dict.get.                        *)
(***************************************************************************)
Truthy(x) ==
  CASE x.t = "null" -> FALSE
    [] x.t = "bool" -> x.b
    [] x.t = "int" -> x.n # 0
    [] x.t = "float" -> x.sp # "finite" \/ x.m # 0
    [] x.t = "str" -> x.s # ""
    [] x.t = "arr" -> x.a # << >>
    [] OTHER -> DOMAIN x.o # {}

TypeName(x) ==
  CASE x.t = "null" -> "NoneType"
    [] x.t = "bool" -> "bool"
    [] x.t = "int" -> "int"
    [] x.t = "float" -> "float"
    [] x.t = "str" -> "str"
    [] x.t = "arr" -> "list"
    [] OTHER -> "dict"

Get(d, key, default) == IF key \in DOMAIN d.o THEN d.o[key] ELSE default

IsNumber(x) == x.t \in {"int", "float", "bool"}

(* The integer a bool or an int stands for in arithmetic. *)
AsInt(x) == IF x.t = "bool" THEN (IF x.b THEN 1 ELSE 0) ELSE x.n

(* x < n for a number x and an integer n. *)
NumLess(x, n) ==
  IF x.t = "float"
  THEN CASE x.sp = "nan" -> FALSE
         [] x.sp = "inf" -> FALSE
         [] x.sp = "-inf" -> TRUE
         [] OTHER -> IF x.e >= 0 THEN x.m * Pow10(x.e) < n
                     ELSE x.m < n * Pow10(0 - x.e)
  ELSE AsInt(x) < n

(* str(x - n) for a number x and an integer n. *)
MinusText(x, n) ==
  IF x.t = "float"
  THEN IF x.sp # "finite" THEN (IF x.sp = "-inf" THEN "-inf" ELSE x.sp)
       ELSE IF x.e >= 0 THEN ToString(x.m * Pow10(x.e) - n) \o ".0"
       ELSE ToString(x.m - n * Pow10(0 - x.e)) \o "e" \o ToString(x.e)
  ELSE ToString(AsInt(x) - n)

(***************************************************************************)
(* InspectorScreen.decode_jwt_part                                         *)
(***************************************************************************)
RECURSIVE Repeat(_, _)
Repeat(c, n) == IF n <= 0 THEN "" ELSE c \o Repeat(c, n - 1)

AddPadding(encoded_part) ==
  LET missing_padding == Len(encoded_part) % 4 IN
  IF missing_padding # 0 THEN encoded_part \o Repeat("=", 4 - missing_padding)
  ELSE encoded_part

(* The except clause of decode_jwt_part. *)
PartError(e) == Raise("ValueError", "Failed to decode part: " \o e.msg)

PartJson(parsed) == IF ~parsed.ok THEN PartError(parsed) ELSE Ok(parsed.v)

PartText(decoded_str) ==
  IF ~decoded_str.ok THEN PartError(decoded_str) ELSE PartJson(json_loads(decoded_str.v))

PartBytes(decoded_bytes) ==
  IF ~decoded_bytes.ok THEN PartError(decoded_bytes)
  ELSE PartText(utf8_decode(decoded_bytes.v))

decode_jwt_part(encoded_part) == PartBytes(urlsafe_b64decode(AddPadding(encoded_part)))

(***************************************************************************)
(* InspectorScreen.analyze_jwt, with current_time the value int(time.time()) *)
(* returns when the expiration check reads the clock.                      *)
(***************************************************************************)
NoGet(x) == Raise("AttributeError", "'" \o TypeName(x) \o "' object has no attribute 'get'")

HMAC_ALGS == {StrV("HS256"), StrV("HS384"), StrV("HS512")}

RSA_ALGS == {StrV("RS256"), StrV("RS384"), StrV("RS512")}

ECDSA_ALGS == {StrV("ES256"), StrV("ES384"), StrV("ES512")}

AlgIn(alg, algs) == alg.t = "str" /\ alg \in algs

AlgorithmWarning(algorithm) ==
  IF algorithm = StrV("none") THEN <<"Algorithm is 'none' - this is insecure!">> ELSE << >>

(* The warning only for an issuer that is the empty text. *)
IssuerWarningOnEmptyText(issuer) ==
  IF issuer = StrV("") THEN <<"No issuer (iss) claim found">> ELSE << >>

IssuerWarning(issuer) ==
  IF ~Truthy(issuer) THEN <<"No issuer (iss) claim found">> ELSE << >>

(* The warning only for a token without an exp claim. *)
ExpirationWarningOnAbsent(expiration) ==
  IF expiration = Null THEN <<"No expiration (exp) claim found">> ELSE << >>

ExpirationWarning(expiration) ==
  IF ~Truthy(expiration) THEN <<"No expiration (exp) claim found">> ELSE << >>

(* Expired from the second of expiry on. *)
ExpiredOrNow(expiration, current_time) ==
  Truthy(expiration) /\ NumLess(expiration, current_time + 1)

Expired(expiration, current_time) ==
  Truthy(expiration) /\ NumLess(expiration, current_time)

(* The warning for a token that has not expired yet. *)
ExpiredWarningReversed(expiration, current_time) ==
  IF Truthy(expiration) /\ ~Expired(expiration, current_time)
  THEN <<"Token has expired">> ELSE << >>

ExpiredWarning(expiration, current_time) ==
  IF Expired(expiration, current_time) THEN <<"Token has expired">> ELSE << >>

(* The remaining time taken from the clock to the expiry's sign reversed. *)
RemainingInfoReversed(expiration, current_time) ==
  IF Truthy(expiration) /\ ~Expired(expiration, current_time)
  THEN <<"Token expires in -" \o MinusText(expiration, current_time) \o " seconds">>
  ELSE << >>

RemainingInfo(expiration, current_time) ==
  IF Truthy(expiration) /\ ~Expired(expiration, current_time)
  THEN <<"Token expires in " \o MinusText(expiration, current_time) \o " seconds">>
  ELSE << >>

(* PS256 counted among the RSA algorithms. *)
AlgorithmInfoWithPss(algorithm) ==
  IF AlgIn(algorithm, HMAC_ALGS) THEN <<"HMAC algorithm - symmetric key">>
  ELSE IF AlgIn(algorithm, RSA_ALGS \cup {StrV("PS256")})
  THEN <<"RSA algorithm - asymmetric key">>
  ELSE IF AlgIn(algorithm, ECDSA_ALGS) THEN <<"ECDSA algorithm - asymmetric key">>
  ELSE << >>

AlgorithmInfo(algorithm) ==
  IF AlgIn(algorithm, HMAC_ALGS) THEN <<"HMAC algorithm - symmetric key">>
  ELSE IF AlgIn(algorithm, RSA_ALGS) THEN <<"RSA algorithm - asymmetric key">>
  ELSE IF AlgIn(algorithm, ECDSA_ALGS) THEN <<"ECDSA algorithm - asymmetric key">>
  ELSE << >>

(* The issuer check made before the algorithm check. *)
WarningsIssuerFirst(algorithm, issuer, expiration, current_time) ==
  IssuerWarning(issuer) \o AlgorithmWarning(algorithm) \o ExpirationWarning(expiration)
  \o ExpiredWarning(expiration, current_time)

Warnings(algorithm, issuer, expiration, current_time) ==
  AlgorithmWarning(algorithm) \o IssuerWarning(issuer) \o ExpirationWarning(expiration)
  \o ExpiredWarning(expiration, current_time)

analyze_jwt(header, payload, current_time) ==
  IF header.t # "obj" THEN NoGet(header)
  ELSE IF payload.t # "obj" THEN NoGet(payload)
  ELSE IF Truthy(Get(payload, "exp", Null)) /\ ~IsNumber(Get(payload, "exp", Null))
  THEN Raise("TypeError", "'<' not supported between instances of '"
                          \o TypeName(Get(payload, "exp", Null)) \o "' and 'int'")
  ELSE Ok([algorithm |-> Get(header, "alg", StrV("Unknown")),
           token_type |-> Get(header, "typ", StrV("Unknown")),
           key_id |-> Get(header, "kid", Null),
           issuer |-> Get(payload, "iss", Null),
           subject |-> Get(payload, "sub", Null),
           audience |-> Get(payload, "aud", Null),
           expiration |-> Get(payload, "exp", Null),
           issued_at |-> Get(payload, "iat", Null),
           not_before |-> Get(payload, "nbf", Null),
           scopes |-> Get(payload, "scope", Null),
           warnings |-> Warnings(Get(header, "alg", StrV("Unknown")),
                                 Get(payload, "iss", Null),
                                 Get(payload, "exp", Null), current_time),
           info |-> RemainingInfo(Get(payload, "exp", Null), current_time)
                    \o AlgorithmInfo(Get(header, "alg", StrV("Unknown")))])

(***************************************************************************)
(* InspectorScreen.parse_jwt_token.  The result carries, beside what the   *)
(* call returns or raises, the calls it made, in order.                    *)
(***************************************************************************)
(* Split as str.split() without a separator behaves: empty segments are *)
(* dropped.                                                             *)
RECURSIVE SplitDropEmpty(_, _)
SplitDropEmpty(s, sep) ==
  LET hits == {k \in 1..Len(s) : CharAt(s, k) = sep} IN
  IF hits = {} THEN (IF s = "" THEN << >> ELSE <<s>>)
  ELSE LET k == CHOOSE x \in hits : \A y \in hits : x <= y IN
       (IF k = 1 THEN << >> ELSE <<SubSeq(s, 1, k - 1)>>)
       \o SplitDropEmpty(SubSeq(s, k + 1, Len(s)), sep)

RECURSIVE Split(_, _)
Split(s, sep) ==
  LET hits == {k \in 1..Len(s) : CharAt(s, k) = sep} IN
  IF hits = {} THEN <<s>>
  ELSE LET k == CHOOSE x \in hits : \A y \in hits : x <= y IN
       <<SubSeq(s, 1, k - 1)>> \o Split(SubSeq(s, k + 1, Len(s)), sep)

Outcome(result, made) == [r |-> result, calls |-> made]

(* The except clause of parse_jwt_token, after the calls made. *)
JwtError(e, made) == Outcome(Raise("ValueError", "Failed to decode JWT: " \o e.msg), made)

(* ParseAnalysis with the signature segment padded like the other two. *)
ParseAnalysisPadded(parts, header, payload, analysis) ==
  IF ~analysis.ok THEN JwtError(analysis, <<"decode_jwt_part", "decode_jwt_part", "analyze_jwt">>)
  ELSE Outcome(Ok([header |-> header.v,
                   payload |-> payload.v,
                   signature |-> AddPadding(parts[3]),
                   analysis |-> analysis.v,
                   raw_parts |-> [header |-> parts[1],
                                  payload |-> parts[2],
                                  signature |-> parts[3]]]),
               <<"decode_jwt_part", "decode_jwt_part", "analyze_jwt">>)

ParseAnalysis(parts, header, payload, analysis) ==
  IF ~analysis.ok THEN JwtError(analysis, <<"decode_jwt_part", "decode_jwt_part", "analyze_jwt">>)
  ELSE Outcome(Ok([header |-> header.v,
                   payload |-> payload.v,
                   signature |-> parts[3],
                   analysis |-> analysis.v,
                   raw_parts |-> [header |-> parts[1],
                                  payload |-> parts[2],
                                  signature |-> parts[3]]]),
               <<"decode_jwt_part", "decode_jwt_part", "analyze_jwt">>)

(* ParsePayload with a payload that cannot be decoded taken as an empty *)
(* object.                                                             *)
ParsePayloadLenient(parts, header, payload, current_time) ==
  IF ~payload.ok
  THEN ParseAnalysis(parts, header, Ok(ObjV(EmptyDict)),
                     analyze_jwt(header.v, ObjV(EmptyDict), current_time))
  ELSE ParseAnalysis(parts, header, payload, analyze_jwt(header.v, payload.v, current_time))

ParsePayload(parts, header, payload, current_time) ==
  IF ~payload.ok THEN JwtError(payload, <<"decode_jwt_part", "decode_jwt_part">>)
  ELSE ParseAnalysis(parts, header, payload, analyze_jwt(header.v, payload.v, current_time))

(* ParseHeader with the failing segment named in the error. *)
ParseHeaderNamed(parts, header, current_time) ==
  IF ~header.ok
  THEN Outcome(Raise("ValueError", "Failed to decode JWT header: " \o header.msg),
               <<"decode_jwt_part">>)
  ELSE ParsePayload(parts, header, decode_jwt_part(parts[2]), current_time)

ParseHeader(parts, header, current_time) ==
  IF ~header.ok THEN JwtError(header, <<"decode_jwt_part">>)
  ELSE ParsePayload(parts, header, decode_jwt_part(parts[2]), current_time)

ParseParts(parts, current_time) ==
  IF Len(parts) # 3
  THEN Outcome(Raise("ValueError",
                     "Invalid JWT format. JWT should have 3 parts separated by dots."),
               << >>)
  ELSE ParseHeader(parts, decode_jwt_part(parts[1]), current_time)

parse_jwt_token(token, current_time) == ParseParts(Split(token, "."), current_time)

(***************************************************************************)
(* Time.  Instants are whole seconds since the epoch.  A datetime is       *)
(* [secs, aware, off]: an aware one holds the UTC seconds of its instant   *)
(* and its UTC offset; a naive one holds the seconds of its wall-clock     *)
(* reading (off is 0).  A clock reading is [utc, local]: the instant and   *)
(* the UTC offset of the local time zone.                                  *)
(***************************************************************************)
Naive(wall) == [secs |-> wall, aware |-> FALSE, off |-> 0]

Aware(utc, offset) == [secs |-> utc, aware |-> TRUE, off |-> offset]

(* datetime.now(tzinfo) if tzinfo else datetime.now(), for the tzinfo of like. *)
datetime_now(clock, like) ==
  IF like.aware THEN Aware(clock.utc, like.off) ELSE Naive(clock.utc + clock.local)

(* a <= b on datetimes. *)
datetime_le(a, b) ==
  IF a.aware # b.aware
  THEN Raise("TypeError", "can't compare offset-naive and offset-aware datetimes")
  ELSE Ok(a.secs <= b.secs)

(* str(x) and, for an item of a list or a dict, repr(x).  A float is      *)
(* written as Python writes it when it has no fraction; the pairs of a    *)
(* dict are written in the order of CHOOSE (a dict of one key has only    *)
(* one order).                                                            *)
RECURSIVE PyRepr(_, _)
PyRepr(x, quoted) ==
  CASE x.t = "null" -> "None"
    [] x.t = "bool" -> IF x.b THEN "True" ELSE "False"
    [] x.t = "int" -> ToString(x.n)
    [] x.t = "str" -> IF quoted THEN "'" \o x.s \o "'" ELSE x.s
    [] x.t = "float" ->
         IF x.sp # "finite" THEN x.sp
         ELSE IF Len(ToString(x.m)) + x.e <= 16
         THEN ToString(x.m) \o Repeat("0", x.e) \o ".0"
         ELSE SubSeq(ToString(x.m), 1, 1)
              \o (IF Len(ToString(x.m)) > 1
                  THEN "." \o SubSeq(ToString(x.m), 2, Len(ToString(x.m))) ELSE "")
              \o "e+" \o ToString(Len(ToString(x.m)) - 1 + x.e)
    [] x.t = "arr" ->
         IF x.a = << >> THEN "[]"
         ELSE IF Len(x.a) = 1 THEN "[" \o PyRepr(x.a[1], TRUE) \o "]"
         ELSE "[" \o PyRepr(x.a[1], TRUE) \o ", "
              \o SubSeq(PyRepr(ArrV(Tail(x.a)), TRUE), 2, Len(PyRepr(ArrV(Tail(x.a)), TRUE)))
    [] OTHER ->
         IF DOMAIN x.o = {} THEN "{}"
         ELSE LET k == CHOOSE key \in DOMAIN x.o : TRUE
                  rest == [key \in DOMAIN x.o \ {k} |-> x.o[key]]
              IN "{'" \o k \o "': " \o PyRepr(x.o[k], TRUE)
                 \o (IF DOMAIN rest = {} THEN "}"
                     ELSE ", " \o SubSeq(PyRepr(ObjV(rest), TRUE), 2,
                                         Len(PyRepr(ObjV(rest), TRUE))))

PyStr(x) == PyRepr(x, FALSE)

(* text.replace("Z", "+00:00") *)
RECURSIVE ReplaceZ(_)
ReplaceZ(text) ==
  IF text = "" THEN ""
  ELSE (IF CharAt(text, 1) = "Z" THEN "+00:00" ELSE CharAt(text, 1))
       \o ReplaceZ(SubSeq(text, 2, Len(text)))

(* The number written by the digits text[a..b], -1 if one is not a digit. *)
Digits(text, a, b) ==
  IF \E k \in a..b : ~IsDigit(Ord(CharAt(text, k))) THEN -1
  ELSE DigitsValue([k \in 1..Len(text) |-> Ord(CharAt(text, k))], a, b + 1, 0)

(* date.toordinal() - date(1970, 1, 1).toordinal() in the proleptic       *)
(* Gregorian calendar.                                                    *)
DaysFromCivil(y, m, d) ==
  LET yy == IF m <= 2 THEN y - 1 ELSE y
      era == yy \div 400
      yoe == yy - era * 400
      doy == (153 * (IF m > 2 THEN m - 3 ELSE m + 9) + 2) \div 5 + d - 1
      doe == yoe * 365 + yoe \div 4 - yoe \div 100 + doy
  IN era * 146097 + doe - 719468

DaysInMonth(y, m) ==
  IF m = 2 THEN (IF y % 4 = 0 /\ (y % 100 # 0 \/ y % 400 = 0) THEN 29 ELSE 28)
  ELSE IF m \in {4, 6, 9, 11} THEN 30 ELSE 31

(* The datetime of the fields read from an ISO text; sign is 0 for a text *)
(* without an offset.                                                     *)
IsoFields(text, y, mo, d, h, mi, sec, sign, oh, om) ==
  IF y < 1 \/ mo < 0 \/ d < 0 \/ h < 0 \/ mi < 0 \/ sec < 0 \/ oh < 0 \/ om < 0 \/ om > 59
  THEN Raise("ValueError", "Invalid isoformat string: " \o PyRepr(StrV(text), TRUE))
  ELSE IF mo < 1 \/ mo > 12 THEN Raise("ValueError", "month must be in 1..12")
  ELSE IF d < 1 \/ d > DaysInMonth(y, mo)
  THEN Raise("ValueError", "day is out of range for month")
  ELSE IF h > 23 THEN Raise("ValueError", "hour must be in 0..23")
  ELSE IF mi > 59 THEN Raise("ValueError", "minute must be in 0..59")
  ELSE IF sec > 59 THEN Raise("ValueError", "second must be in 0..59")
  ELSE IF oh > 23
  THEN Raise("ValueError", "offset must be a timedelta strictly between "
                           \o "-timedelta(hours=24) and timedelta(hours=24)")
  ELSE IF sign = 0
  THEN Ok(Naive(DaysFromCivil(y, mo, d) * 86400 + h * 3600 + mi * 60 + sec))
  ELSE Ok(Aware(DaysFromCivil(y, mo, d) * 86400 + h * 3600 + mi * 60 + sec
                - sign * (oh * 3600 + om * 60),
                sign * (oh * 3600 + om * 60)))

(* datetime.fromisoformat for the texts YYYY-MM-DDTHH:MM:SS and           *)
(* YYYY-MM-DDTHH:MM:SS+HH:MM (or -HH:MM); a text of another length or     *)
(* with another character where a separator belongs is not a timestamp of *)
(* the model and is refused.                                              *)
fromisoformat(text) ==
  IF /\ Len(text) \in {19, 25}
     /\ CharAt(text, 5) = "-" /\ CharAt(text, 8) = "-" /\ CharAt(text, 11) = "T"
     /\ CharAt(text, 14) = ":" /\ CharAt(text, 17) = ":"
     /\ Len(text) = 25 => CharAt(text, 20) \in {"+", "-"} /\ CharAt(text, 23) = ":"
  THEN IsoFields(text, Digits(text, 1, 4), Digits(text, 6, 7), Digits(text, 9, 10),
                 Digits(text, 12, 13), Digits(text, 15, 16), Digits(text, 18, 19),
                 IF Len(text) = 19 THEN 0 ELSE IF CharAt(text, 20) = "+" THEN 1 ELSE -1,
                 IF Len(text) = 19 THEN 0 ELSE Digits(text, 21, 22),
                 IF Len(text) = 19 THEN 0 ELSE Digits(text, 24, 25))
  ELSE Raise("ValueError", "Invalid isoformat string: " \o PyRepr(StrV(text), TRUE))

(* datetime.fromtimestamp(x) for a number x: the naive local datetime.  A  *)
(* finite float is taken by the count of its decimal digits: within the   *)
(* integers of the model it is its value in seconds, from 10^12 on the     *)
(* year is out of range, from 10^17 on localtime fails and from 10^19 on   *)
(* the value does not fit time_t.                                          *)
fromtimestamp(x, clock) ==
  IF x.t # "float" THEN Ok(Naive(AsInt(x) + clock.local))
  ELSE IF x.sp = "nan" THEN Raise("ValueError", "Invalid value NaN (not a number)")
  ELSE IF x.sp # "finite"
  THEN Raise("OverflowError", "timestamp out of range for platform time_t")
  ELSE LET digits == Len(ToString(IF x.m < 0 THEN 0 - x.m ELSE x.m)) + x.e IN
       CASE digits <= 9 ->
              Ok(Naive((IF x.e >= 0 THEN x.m * Pow10(x.e) ELSE x.m \div Pow10(0 - x.e))
                       + clock.local))
         [] digits = 10 /\ x.e >= 0 /\ x.m <= 2000000000 \div Pow10(x.e)
                        /\ x.m >= 0 - (2000000000 \div Pow10(x.e)) ->
              Ok(Naive(x.m * Pow10(x.e) + clock.local))
         [] digits \in 13..16 ->
              Raise("ValueError", "year is out of range")
         [] digits \in 18..19 ->
              Raise("OSError", "[Errno 75] Value too large for defined data type")
         [] digits >= 20 ->
              Raise("OverflowError", "timestamp out of range for platform time_t")

(* The expiry or issue time of a record, as the listings read it:         *)
(*   if isinstance(value, (int, float)): datetime.fromtimestamp(value)    *)
(*   else: datetime.fromisoformat(str(value).replace("Z", "+00:00"))      *)
to_datetime(value, clock) ==
  IF IsNumber(value) THEN fromtimestamp(value, clock)
  ELSE fromisoformat(ReplaceZ(PyStr(value)))

(* except (ValueError, OSError) *)
Caught(e) == e.exc \in {"ValueError", "OSError"}

(***************************************************************************)
(* DashboardScreen.get_token_status                                        *)
(***************************************************************************)
(* The comparison with the hour taken strictly. *)
StatusOfUnderHour(exp_time, now) ==
  IF exp_time.secs <= now.secs THEN Ok("Expired")
  ELSE IF exp_time.secs < now.secs + 3600 THEN Ok("Expiring")
  ELSE Ok("Active")

StatusOf(exp_time, now) ==
  IF exp_time.secs <= now.secs THEN Ok("Expired")
  ELSE IF exp_time.secs <= now.secs + 3600 THEN Ok("Expiring")
  ELSE Ok("Active")

StatusAt(exp_time, clock) ==
  IF exp_time.ok THEN StatusOf(exp_time.v, datetime_now(clock, exp_time.v))
  ELSE IF Caught(exp_time) THEN Ok("Unknown")
  ELSE exp_time

GetTokenStatusKeyOnly(token, clock) ==
  IF token.t = "obj" /\ "expires_at" \notin DOMAIN token.o THEN Ok("Active")
  ELSE StatusAt(to_datetime(Get(token, "expires_at", Null), clock), clock)

get_token_status(token, clock) ==
  IF ~Truthy(Get(token, "expires_at", Null)) THEN Ok("Active")
  ELSE StatusAt(to_datetime(Get(token, "expires_at", Null), clock), clock)

(***************************************************************************)
(* DashboardScreen.format_expiration and TokensScreen.update_table: the    *)
(* remaining time, a timedelta of days and seconds, as a label.            *)
(***************************************************************************)
RemainingLabel(days, seconds) ==
  IF days > 0 THEN ToString(days) \o "d " \o ToString(seconds \div 3600) \o "h"
  ELSE IF seconds > 3600
  THEN ToString(seconds \div 3600) \o "h " \o ToString((seconds % 3600) \div 60) \o "m"
  ELSE ToString(seconds \div 60) \o "m"

ExpirationOf(exp_time, now) ==
  IF exp_time.secs <= now.secs THEN Ok("Expired")
  ELSE Ok(RemainingLabel((exp_time.secs - now.secs) \div 86400,
                         (exp_time.secs - now.secs) % 86400))

ExpirationAt(exp_time, clock, expires_at) ==
  IF exp_time.ok THEN ExpirationOf(exp_time.v, datetime_now(clock, exp_time.v))
  ELSE IF Caught(exp_time) THEN Ok(PyStr(expires_at))
  ELSE exp_time

format_expiration(token, clock) ==
  IF ~Truthy(Get(token, "expires_at", Null)) THEN Ok("Never")
  ELSE ExpirationAt(to_datetime(Get(token, "expires_at", Null), clock), clock,
                    Get(token, "expires_at", Null))

(***************************************************************************)
(* DashboardScreen.format_issued_time                                      *)
(***************************************************************************)
AgoLabel(days, seconds) ==
  IF days > 0 THEN ToString(days) \o "d ago"
  ELSE IF seconds > 3600 THEN ToString(seconds \div 3600) \o "h ago"
  ELSE ToString(seconds \div 60) \o "m ago"

IssuedAt(issued_time, now) ==
  Ok(AgoLabel((now.secs - issued_time.secs) \div 86400,
              (now.secs - issued_time.secs) % 86400))

IssuedTimeAt(issued_time, clock, issued_at) ==
  IF issued_time.ok THEN IssuedAt(issued_time.v, datetime_now(clock, issued_time.v))
  ELSE IF Caught(issued_time) THEN Ok(PyStr(issued_at))
  ELSE issued_time

format_issued_time(token, clock) ==
  IF ~Truthy(Get(token, "issued_at", Null)) THEN Ok("Unknown")
  ELSE IssuedTimeAt(to_datetime(Get(token, "issued_at", Null), clock), clock,
                    Get(token, "issued_at", Null))

(***************************************************************************)
(* DashboardScreen.count_expired_tokens and get_system_status: now is the  *)
(* naive datetime.now() whatever the record holds.                         *)
(***************************************************************************)
ExpiredAt(exp_time, clock) ==
  IF exp_time.ok THEN datetime_le(exp_time.v, Naive(clock.utc + clock.local))
  ELSE IF Caught(exp_time) THEN Ok(FALSE)
  ELSE exp_time

(* One turn of the loop: whether the record counts, or what it raises. *)
CountsAsExpired(token, clock) ==
  IF ~Truthy(Get(token, "expires_at", Null)) THEN Ok(FALSE)
  ELSE ExpiredAt(to_datetime(Get(token, "expires_at", Null), clock), clock)

RECURSIVE CountLoop(_, _, _)
CountStep(tokens, clock, expired_count, counts) ==
  IF ~counts.ok THEN counts
  ELSE CountLoop(Tail(tokens), clock, IF counts.v THEN expired_count + 1 ELSE expired_count)

CountLoop(tokens, clock, expired_count) ==
  IF tokens = << >> THEN Ok(expired_count)
  ELSE CountStep(tokens, clock, expired_count, CountsAsExpired(Head(tokens), clock))

count_expired_tokens(tokens, clock) == CountLoop(tokens, clock, 0)

SystemStatusOf(tokens, providers, expired_tokens) ==
  IF ~expired_tokens.ok THEN expired_tokens
  ELSE IF expired_tokens.v > 0 THEN Ok("Warning")
  ELSE IF Len(tokens) = 0 /\ Len(providers) = 0 THEN Ok("Setup")
  ELSE Ok("Ready")

get_system_status(loading, tokens, providers, clock) ==
  IF loading THEN Ok("Loading...")
  ELSE SystemStatusOf(tokens, providers, count_expired_tokens(tokens, clock))

(***************************************************************************)
(* TokensScreen.update_table: the row of one record (the body of the loop  *)
(* over self.tokens).                                                      *)
(***************************************************************************)
RECURSIVE JoinFrom(_, _)
JoinRest(scopes, i, rest) ==
  IF ~rest.ok THEN rest ELSE Ok(scopes[i].s \o " " \o rest.v)

JoinFrom(scopes, i) ==
  IF i > Len(scopes) THEN Ok("")
  ELSE IF scopes[i].t # "str"
  THEN Raise("TypeError", "sequence item " \o ToString(i - 1)
                          \o ": expected str instance, "
                          \o TypeName(scopes[i]) \o " found")
  ELSE IF i = Len(scopes) THEN Ok(scopes[i].s)
  ELSE JoinRest(scopes, i, JoinFrom(scopes, i + 1))

ScopesCell(scopes) == IF scopes.t = "arr" THEN JoinFrom(scopes.a, 1) ELSE Ok(PyStr(scopes))

TableRow(token, status, expires_display, scopes) ==
  IF ~scopes.ok THEN scopes
  ELSE Ok([provider |-> Get(token, "provider", StrV("Unknown")),
           token_type |-> Get(token, "token_type", StrV("Bearer")),
           status |-> status,
           expires |-> expires_display,
           scopes |-> scopes.v])

TableRowOf(token, exp_time, now) ==
  IF exp_time.secs <= now.secs
  THEN TableRow(token, "Expired", "N/A", ScopesCell(Get(token, "scope", StrV("N/A"))))
  ELSE TableRow(token, "Active",
                RemainingLabel((exp_time.secs - now.secs) \div 86400,
                               (exp_time.secs - now.secs) % 86400),
                ScopesCell(Get(token, "scope", StrV("N/A"))))

TableRowAt(token, exp_time, clock) ==
  IF exp_time.ok THEN TableRowOf(token, exp_time.v, datetime_now(clock, exp_time.v))
  ELSE IF Caught(exp_time)
  THEN TableRow(token, "Active", PyStr(Get(token, "expires_at", Null)),
                ScopesCell(Get(token, "scope", StrV("N/A"))))
  ELSE exp_time

update_table_row(token, clock) ==
  IF ~Truthy(Get(token, "expires_at", Null))
  THEN TableRow(token, "Active", "N/A", ScopesCell(Get(token, "scope", StrV("N/A"))))
  ELSE TableRowAt(token, to_datetime(Get(token, "expires_at", Null), clock), clock)

(***************************************************************************)
(* DashboardScreen: the screen's reactive attributes and widgets are the   *)
(* fields of one record s.  Assigning a reactive attribute runs its watch  *)
(* method, synchronously, when the new value differs from the old one.     *)
(* In the screen's state machine the clock does not advance within a       *)
(* handler; RowCells takes the readings of a row's calls one by one.       *)
(***************************************************************************)
Pad2(n) == IF n < 10 THEN "0" \o ToString(n) ELSE ToString(n)

(* datetime.now().strftime("%H:%M:%S") *)
Strftime(wall) ==
  Pad2((wall % 86400) \div 3600) \o ":" \o Pad2((wall % 3600) \div 60)
  \o ":" \o Pad2(wall % 60)

Notify(s, message, severity) ==
  [s EXCEPT !.notifications = Append(@, [message |-> message, severity |-> severity])]

watch_loading(s, clock) ==
  [s EXCEPT !.loading_indicator = s.loading,
            !.status_text = IF s.loading THEN "Loading dashboard data..."
                            ELSE "Last updated: " \o Strftime(clock.utc + clock.local)]

SetLoading(s, loading, clock) ==
  IF s.loading = loading THEN s ELSE watch_loading([s EXCEPT !.loading = loading], clock)

CardsStatus(s, expired_tokens, system_status) ==
  IF ~system_status.ok
  THEN Notify(s, "Error updating stats: " \o system_status.msg, "error")
  ELSE [s EXCEPT !.cards = << ToString(Len(s.tokens)), ToString(Len(s.providers)),
                              ToString(expired_tokens), system_status.v >>]

CardsCounted(s, clock, expired_tokens) ==
  IF ~expired_tokens.ok
  THEN Notify(s, "Error updating stats: " \o expired_tokens.msg, "error")
  ELSE CardsStatus(s, expired_tokens.v,
                   get_system_status(s.loading, s.tokens, s.providers, clock))

update_stat_cards(s, clock) == CardsCounted(s, clock, count_expired_tokens(s.tokens, clock))

(* a < b on two strings: by code point, a proper prefix first. *)
RECURSIVE StrLessFrom(_, _, _)
StrLessFrom(a, b, i) ==
  IF i > Len(b) THEN FALSE
  ELSE IF i > Len(a) THEN TRUE
  ELSE IF CharAt(a, i) = CharAt(b, i) THEN StrLessFrom(a, b, i + 1)
  ELSE Ord(CharAt(a, i)) < Ord(CharAt(b, i))

(* The sort key of a record and the order of two keys.  Keys are ints,     *)
(* bools and strings, or values that no key can be compared with (None,    *)
(* a dict); a float key is not among the records of this model.            *)
IssuedKey(token) == Get(token, "issued_at", IntV(0))

Comparable(a, b) ==
  \/ a.t \in {"int", "bool"} /\ b.t \in {"int", "bool"}
  \/ a.t = "str" /\ b.t = "str"

KeyLess(a, b) ==
  CASE a.t \in {"int", "bool"} /\ b.t \in {"int", "bool"} -> AsInt(a) < AsInt(b)
    [] a.t = "str" /\ b.t = "str" -> StrLessFrom(a.s, b.s, 1)

Reversed(seq) == [i \in 1..Len(seq) |-> seq[Len(seq) + 1 - i]]

(* sorted(..., reverse=True) keeps records of equal key in their order.    *)
InsertByKey(done, token) ==
  SubSeq(done, 1, Cardinality({i \in 1..Len(done) :
                                 ~KeyLess(IssuedKey(done[i]), IssuedKey(token))}))
  \o <<token>>
  \o SubSeq(done, Cardinality({i \in 1..Len(done) :
                                 ~KeyLess(IssuedKey(done[i]), IssuedKey(token))}) + 1,
            Len(done))

RECURSIVE SortFrom(_, _, _)
SortFrom(tokens, i, done) ==
  IF i > Len(tokens) THEN done
  ELSE SortFrom(tokens, i + 1, InsertByKey(done, tokens[i]))

(* list.sort reverses the list and compares neighbours from the front, so  *)
(* the first pair it cannot order is the one the TypeError names (exact    *)
(* for lists of up to three records).                                      *)
Unordered(rev) ==
  {i \in 1..(Len(rev) - 1) : ~Comparable(IssuedKey(rev[i + 1]), IssuedKey(rev[i]))}

SortError(rev, i) ==
  Raise("TypeError", "'<' not supported between instances of '"
                     \o TypeName(IssuedKey(rev[i + 1])) \o "' and '"
                     \o TypeName(IssuedKey(rev[i])) \o "'")

sorted_tokens(tokens) ==
  IF Unordered(Reversed(tokens)) # {}
  THEN SortError(Reversed(tokens),
                 CHOOSE i \in Unordered(Reversed(tokens)) :
                   \A j \in Unordered(Reversed(tokens)) : i <= j)
  ELSE Ok(SortFrom(tokens, 1, << >>))

DashboardRow(token, status, expires_display, issued_display) ==
  IF ~status.ok THEN status
  ELSE IF ~expires_display.ok THEN expires_display
  ELSE IF ~issued_display.ok THEN issued_display
  ELSE Ok([provider |-> Get(token, "provider", StrV("Unknown")),
           token_type |-> Get(token, "token_type", StrV("Bearer")),
           status |-> status.v,
           expires |-> expires_display.v,
           issued |-> issued_display.v])

(* One turn of update_recent_tokens_table's loop.  get_token_status,      *)
(* format_expiration and format_issued_time each read the clock: first is  *)
(* the reading of the first call, second the reading of the later two.     *)
RowCells(token, first, second) ==
  DashboardRow(token, get_token_status(token, first),
               format_expiration(token, second),
               format_issued_time(token, second))

RECURSIVE AddRows(_, _, _)
AddRow(table, tokens, clock, row) ==
  IF ~row.ok THEN [table |-> table, raised |-> row]
  ELSE AddRows(Append(table, row.v), Tail(tokens), clock)

AddRows(table, tokens, clock) ==
  IF tokens = << >> THEN [table |-> table, raised |-> Ok(Null)]
  ELSE AddRow(table, tokens, clock, RowCells(Head(tokens), clock, clock))

NoTokensRow ==
  [provider |-> StrV("No tokens found"), token_type |-> StrV("-"),
   status |-> "-", expires |-> "-", issued |-> "-"]

TableFilled(s, filled) ==
  IF filled.raised.ok THEN [s EXCEPT !.table = filled.table]
  ELSE Notify([s EXCEPT !.table = filled.table],
              "Error updating tokens table: " \o filled.raised.msg, "error")

TableSorted(s, clock, sorted) ==
  IF ~sorted.ok
  THEN Notify([s EXCEPT !.table = << >>],
              "Error updating tokens table: " \o sorted.msg, "error")
  ELSE TableFilled(s, AddRows(<< >>, SubSeq(sorted.v, 1, IF Len(sorted.v) < 10
                                                         THEN Len(sorted.v) ELSE 10),
                              clock))

update_recent_tokens_table(s, clock) ==
  IF s.tokens = << >> THEN [s EXCEPT !.table = <<NoTokensRow>>]
  ELSE TableSorted(s, clock, sorted_tokens(s.tokens))

(* self.tokens = ..., self.stats = ...: the assignment and its watcher. *)
SetTokens(s, tokens, clock) ==
  IF s.tokens = tokens THEN s
  ELSE update_recent_tokens_table([s EXCEPT !.tokens = tokens], clock)

SetStats(s, stats, clock) ==
  IF s.stats = stats THEN s
  ELSE update_stat_cards([s EXCEPT !.stats = stats], clock)

(* OAuthClient.get_tokens / get_providers on the bridge's result. *)
(* The data returned whenever it is a list, whatever success says. *)
GetTokensOfFailure(result) ==
  IF result.data.t = "arr" THEN result.data.a ELSE << >>

get_tokens(result) ==
  IF result.success /\ result.data.t = "arr" THEN result.data.a ELSE << >>

get_providers(result) ==
  IF result.success /\ result.data.t = "arr" THEN result.data.a ELSE << >>

(* load_dashboard_data from the assignment of self.tokens on. *)
LoadFailed(s, clock, e) ==
  SetStats([SetTokens(Notify(s, "Error loading dashboard data: " \o e.msg, "error"),
                      << >>, clock)
              EXCEPT !.providers = << >>],
           EmptyDict, clock)

LoadStatus(s, clock, expired_tokens, system_status) ==
  IF ~system_status.ok THEN LoadFailed(s, clock, system_status)
  ELSE Notify(SetStats(s, "total_tokens" :> IntV(Len(s.tokens))
                          @@ "total_providers" :> IntV(Len(s.providers))
                          @@ "expired_tokens" :> IntV(expired_tokens)
                          @@ "system_status" :> StrV(system_status.v),
                       clock),
              "Dashboard data loaded", "information")

LoadCounted(s, clock, expired_tokens) ==
  IF ~expired_tokens.ok THEN LoadFailed(s, clock, expired_tokens)
  ELSE LoadStatus(s, clock, expired_tokens.v,
                  get_system_status(s.loading, s.tokens, s.providers, clock))

LoadAssigned(s, clock) ==
  SetLoading(LoadCounted(s, clock, count_expired_tokens(s.tokens, clock)), FALSE, clock)

LoadFetched(s, tokens, providers, clock) ==
  LoadAssigned([SetTokens(s, tokens, clock) EXCEPT !.providers = providers], clock)

(***************************************************************************)
(* Inputs.  Each segment is the unpadded base64url text of the JSON text   *)
(* shown beside it.                                                        *)
(***************************************************************************)
MaxTicks == 2

(* Clock readings: int(time.time()) around the exp values of the payloads. *)
BaseTime == 1700000000 - 1

Nows == {BaseTime + k : k \in 0..MaxTicks}

HeaderSegments ==
  { "eyJhbGciOiJIUzI1NiIsInR5cCI6IkpXVCJ9",  \* {"alg":"HS256","typ":"JWT"}
    "eyJhbGciOiJub25lIn0",                   \* {"alg":"none"}
    "e30",                                   \* {}
    "eyJhbGciOiJFUzM4NCJ9",                  \* {"alg":"ES384"}
    "eyJhbGciOiJoczI1NiJ9",                  \* {"alg":"hs256"}
    "eyJhbGciOlsiSFMyNTYiXX0" }              \* {"alg":["HS256"]}

PayloadSegments ==
  { "e30",                                       \* {}
    "eyJpc3MiOiJpZHAiLCJleHAiOjE3MDAwMDAwMDB9",  \* {"iss":"idp","exp":1700000000}
    "eyJpc3MiOiJpZHAiLCJleHAiOjE2OTk5OTk5OTl9",  \* {"iss":"idp","exp":1699999999}
    "eyJpc3MiOiIiLCJleHAiOjE3MDAwMDAwMDF9",      \* {"iss":"","exp":1700000001}
    "eyJleHAiOjB9",                              \* {"exp":0}
    "eyJleHAiOiJzb29uIn0",                       \* {"exp":"soon"}
    "eyJleHAiOlsxNzAwMDAwMDAwXX0",               \* {"exp":[1700000000]}
    "eyJleHAiOnsiYXQiOjF9fQ",                    \* {"exp":{"at":1}}
    "eyJleHAiOnRydWV9",                          \* {"exp":true}
    "eyJpc3MiOiJpZHAiLCJleHAiOjEuN2U5fQ" }       \* {"iss":"idp","exp":1.7e9}

(* Valid JSON that is not an object. *)
NonObjectSegments ==
  { "W10",        \* []
    "InRleHQi",   \* "text"
    "MTc" }       \* 17

(* Segments that fail base64 decoding, UTF-8 decoding or JSON parsing. *)
BadSegments ==
  { "###",        \* no base64 character at all: decodes to no bytes
    "e",          \* one data character: an open quad
    "__4",        \* the bytes FF FE: not UTF-8
    "eyJhIjo",    \* {"a":   (truncated JSON)
    "e30geA" }    \* {} x    (extra data)

SignatureSegments == {"sig", "s!g#"}

SAMPLE_TOKEN ==
  "eyJhbGciOiJSUzI1NiIsInR5cCI6IkpXVCIsImtpZCI6IjEyMzQ1Njc4OTAifQ."
  \o "eyJzdWIiOiIxMjM0NTY3ODkwIiwibmFtZSI6IkpvaG4gRG9lIiwiYWRtaW4iOnRydWUsImF1ZCI6ImV4YW1w"
  \o "bGUtYXBwIiwiaXNzIjoiaHR0cHM6Ly9leGFtcGxlLmNvbSIsImlhdCI6MTYxNjIzOTAyMiwiZXhwIjoxNjE2"
  \o "MjQyNjIyLCJzY29wZSI6InJlYWQgd3JpdGUgYWRtaW4ifQ."
  \o "signature-placeholder"

(* Tokens of three segments: every pairing of a good or bad header segment *)
(* with a good or bad payload segment.                                     *)
ThreePartTokens ==
  { h \o "." \o p \o "." \o g :
      h \in HeaderSegments \cup NonObjectSegments \cup BadSegments,
      p \in PayloadSegments \cup NonObjectSegments \cup BadSegments,
      g \in SignatureSegments }

(* Tokens whose split on "." gives 1, 2, 4 or 5 segments, and tokens with *)
(* an empty segment.                                                      *)
OtherTokens ==
  { "", "e30", "e30.e30", "a.b", "a.b.c.d", "e30.e30.sig.", "e30..e30.sig",
    ".e30.e30.sig", "....", "..", "e30.e30.", ".e30.sig", "e30..sig" }

(* Tokens whose header or payload segment holds characters that are not   *)
(* base64url characters: "#", a blank, and the "/" of standard base64.      *)
StrayCharTokens ==
  { "e3##0.e30.sig", "e3#0.e30.sig", "e30.e3#0=.sig", "e 30 .e30.sig",
    "e30.eyJhIjoiPz8/In0.sig", "e30.eyJhIjoiPz8_In0.sig" }

Tokens == ThreePartTokens \cup OtherTokens \cup StrayCharTokens \cup {SAMPLE_TOKEN}

Segments ==
  HeaderSegments \cup PayloadSegments \cup NonObjectSegments \cup BadSegments
  \cup {"", "e30=", "e30==", "e3#0=", "dHJ1ZQ", "bnVsbA", "eyJhIjoxLH0",
        "e30ge", "eyJhbGciOiJub25lIn0=", "W10=="}

HeaderObjects ==
  { ObjV(EmptyDict),
    ObjV("alg" :> StrV("none")),
    ObjV("alg" :> StrV("HS256") @@ "typ" :> StrV("JWT")),
    ObjV("alg" :> StrV("RS512") @@ "kid" :> StrV("k1")),
    ObjV("alg" :> StrV("ES256")),
    ObjV("alg" :> StrV("PS256")),
    ObjV("alg" :> IntV(256)),
    ObjV("alg" :> ArrV(<<StrV("HS256")>>)),
    ObjV("alg" :> StrV("hs256")),
    ObjV("alg" :> StrV("HS384")),
    ObjV("alg" :> StrV("HS512") @@ "typ" :> StrV("JWT")),
    ObjV("alg" :> StrV("RS256")),
    ObjV("alg" :> StrV("RS384")),
    ObjV("alg" :> StrV("ES384")),
    ObjV("alg" :> StrV("ES512")),
    ObjV("alg" :> StrV("none") @@ "typ" :> StrV("JWT")),
    ObjV("alg" :> StrV("HS256 ")),
    ObjV("alg" :> BoolV(TRUE)) }

PayloadObjects ==
  { ObjV(EmptyDict),
    ObjV("sub" :> StrV("u1") @@ "scope" :> StrV("read")),
    ObjV("iss" :> StrV("idp") @@ "exp" :> IntV(BaseTime + 1)),
    ObjV("iss" :> StrV("idp") @@ "exp" :> IntV(BaseTime - 100)),
    ObjV("iss" :> StrV("") @@ "exp" :> IntV(BaseTime + 3600)),
    ObjV("exp" :> IntV(0)),
    ObjV("exp" :> IntV(-1)),
    ObjV("exp" :> StrV("soon")),
    ObjV("exp" :> StrV("")),
    ObjV("exp" :> ArrV(<<IntV(BaseTime)>>)),
    ObjV("exp" :> ArrV(<< >>)),
    ObjV("exp" :> ObjV("at" :> IntV(1))),
    ObjV("exp" :> BoolV(TRUE)),
    ObjV("exp" :> Null),
    ObjV("iss" :> IntV(7) @@ "exp" :> FloatV(17, 8)),
    ObjV("exp" :> SpecialFloat("nan")) }

(***************************************************************************)
(* Inputs of the listings.  A clock is the epoch second it shows and the   *)
(* offset of local time from UTC; 1700000000 is 2023-11-14T22:13:20Z.      *)
(***************************************************************************)
Clocks == {[utc |-> n, local |-> z] : n \in Nows, z \in {0, 3600}}

ExpiresValues ==
  { Null, IntV(0), IntV(-1), BoolV(TRUE),
    IntV(BaseTime), IntV(BaseTime + 1), IntV(BaseTime + 3601), IntV(BaseTime + 90000),
    FloatV(17, 8), FloatV(1, 30), SpecialFloat("nan"),
    StrV("2023-11-14T22:13:20"), StrV("2023-11-14T23:13:20"),
    StrV("2023-11-14T22:13:19Z"), StrV("2023-11-14T22:13:20Z"),
    StrV("2023-11-14T23:13:20Z"), StrV("2023-11-14T23:13:20+01:00"),
    StrV("not-a-date"), StrV(""), ArrV(<<IntV(1)>>) }

TokenRecords ==
  { ObjV("provider" :> StrV("github")),
    ObjV("provider" :> StrV("github") @@ "access_token" :> StrV("abcdummy_token_data")
         @@ "token_type" :> StrV("Bearer") @@ "expires_at" :> Null @@ "scope" :> Null),
    ObjV("expires_at" :> IntV(BaseTime + 1) @@ "scope" :> ArrV(<<StrV("read"), StrV("write")>>)),
    ObjV("expires_at" :> IntV(BaseTime + 1) @@ "scope" :> StrV("read")) }
  \cup { ObjV("provider" :> StrV("github") @@ "expires_at" :> e) : e \in ExpiresValues }

(* Records for format_issued_time: issued at the clock readings, one       *)
(* minute, one hour and one day before them, long before, and after them.  *)
IssuedValues ==
  { Null, IntV(BaseTime + 1), IntV(BaseTime - 59), IntV(BaseTime - 3599),
    IntV(BaseTime - 86399), IntV(BaseTime - 200000), IntV(BaseTime + 3601),
    FloatV(17, 8),
    StrV("2023-11-14T21:13:20"), StrV("2023-11-14T21:13:20Z"),
    StrV("2023-11-13T22:13:20Z"), StrV("not-a-date"), StrV("") }

IssuedRecords ==
  { ObjV("provider" :> StrV("github")) }
  \cup { ObjV("provider" :> StrV("github") @@ "issued_at" :> i) : i \in IssuedValues }

(* What the CLI's token store may hold, and the lists of up to MaxTokens   *)
(* records a fetch may return.                                             *)
MaxTokens == 2

MaxLoads == 2

StoredTokens ==
  { ObjV("provider" :> StrV("github") @@ "access_token" :> StrV("abcdummy_token_data")
         @@ "token_type" :> StrV("Bearer") @@ "expires_at" :> Null @@ "scope" :> Null),
    ObjV("provider" :> StrV("auth0") @@ "expires_at" :> IntV(BaseTime + 1)
         @@ "issued_at" :> IntV(BaseTime - 60)),
    ObjV("provider" :> StrV("azure") @@ "expires_at" :> StrV("2023-11-14T23:13:20")
         @@ "issued_at" :> StrV("2023-11-14T20:13:19")),
    ObjV("provider" :> StrV("google") @@ "expires_at" :> StrV("2023-11-14T22:13:20Z")
         @@ "issued_at" :> IntV(BaseTime - 60)),
    ObjV("provider" :> StrV("gitlab") @@ "expires_at" :> StrV("not-a-date")) }

TokenLists ==
  UNION {[1..n -> StoredTokens] : n \in 0..MaxTokens}

ProviderLists == {<< >>, <<ObjV("name" :> StrV("github"))>>}

(* CLIBridge.list_tokens / list_providers: the parsed list, a failed       *)
(* command, or a command that printed nothing.                             *)
BridgeResults(data) ==
  { [success |-> TRUE, data |-> ArrV(data), error |-> Null],
    [success |-> TRUE, data |-> Null, error |-> Null],
    [success |-> FALSE, data |-> Null, error |-> StrV("command failed")] }

(***************************************************************************)
(* InspectorScreen.  The screen is its reactive attributes (loading,       *)
(* jwt_token, parsed_data, parse_error), the text of the input, the        *)
(* loading indicator, the widgets of the four output panes and the         *)
(* notifications.  A Static is its text and its classes; the json-text     *)
(* Static of update_output_tabs is kept as the value that                  *)
(* format_json_for_display prints (json), its text left empty.             *)
(***************************************************************************)
Static(text, classes) == [text |-> text, json |-> Null, classes |-> classes]

JsonStatic(data) == [text |-> "", json |-> data, classes |-> "json-text"]

PANES == <<"header", "payload", "signature", "analysis">>

(* The screen as compose() builds it. *)
InspectorScreen ==
  [loading |-> FALSE, jwt_token |-> "", parsed_data |-> Null, parse_error |-> Null,
   token_input |-> "", loading_indicator |-> FALSE,
   panes |-> [p \in {PANES[n] : n \in 1..4} |->
                <<Static("Parse a JWT token to see the " \o p, "info-text")>>],
   notifications |-> << >>]

(* str.strip() *)
RECURSIVE Strip(_)
Strip(text) ==
  IF text = "" THEN ""
  ELSE IF Ord(CharAt(text, 1)) \in WHITESPACE THEN Strip(SubSeq(text, 2, Len(text)))
  ELSE IF Ord(CharAt(text, Len(text))) \in WHITESPACE THEN Strip(SubSeq(text, 1, Len(text) - 1))
  ELSE text

(* datetime.strftime("%Y-%m-%d %H:%M:%S") of a naive datetime: the civil   *)
(* date of the day number, then the time of day.                           *)
CivilFromDays(days) ==
  LET z == days + 719468
      era == z \div 146097
      doe == z - era * 146097
      yoe == (doe - doe \div 1460 + doe \div 36524 - doe \div 146096) \div 365
      doy == doe - (365 * yoe + yoe \div 4 - yoe \div 100)
      mp == (5 * doy + 2) \div 153
      m == IF mp < 10 THEN mp + 3 ELSE mp - 9
  IN [year |-> yoe + era * 400 + (IF m <= 2 THEN 1 ELSE 0),
      month |-> m,
      day |-> doy - (153 * mp + 2) \div 5 + 1]

StrftimeDate(wall) ==
  ToString(CivilFromDays(wall \div 86400).year) \o "-"
  \o Pad2(CivilFromDays(wall \div 86400).month) \o "-"
  \o Pad2(CivilFromDays(wall \div 86400).day) \o " " \o Strftime(wall)

(* InspectorScreen.watch_loading *)
InspectorSetLoading(s, loading) ==
  IF s.loading = loading THEN s
  ELSE [s EXCEPT !.loading = loading, !.loading_indicator = loading]

(* The optional line of the analysis pane for a claim that is present. *)
ValueLine(analysis, key, label) ==
  IF Truthy(analysis[key])
  THEN <<Static(label \o ": " \o PyStr(analysis[key]), "value")>> ELSE << >>

(* datetime.fromtimestamp(value).strftime(...) for a line of the pane. *)
TimeLine(value, clock, label) ==
  IF ~Truthy(value) THEN Ok(<< >>)
  ELSE IF ~IsNumber(value)
  THEN Raise("TypeError", "'" \o TypeName(value) \o "' object cannot be interpreted as an integer")
  ELSE IF ~fromtimestamp(value, clock).ok THEN fromtimestamp(value, clock)
  ELSE Ok(<<Static(label \o ": " \o StrftimeDate(fromtimestamp(value, clock).v.secs), "value")>>)

RECURSIVE Lines(_, _, _)
Lines(texts, mark, classes) ==
  IF texts = << >> THEN << >>
  ELSE <<Static(mark \o texts[1], classes)>> \o Lines(Tail(texts), mark, classes)

Section(title, texts, mark, classes) ==
  IF texts = << >> THEN << >>
  ELSE <<Static(title, "section-title")>> \o Lines(texts, mark, classes)

(* The widgets of the analysis pane, or what building them raises. *)
AnalysisWidgets(analysis, issued, expires) ==
  IF ~issued.ok THEN issued
  ELSE IF ~expires.ok THEN expires
  ELSE Ok(<<Static("Token Analysis:", "section-title"),
            Static("Algorithm: " \o PyStr(analysis.algorithm), "value"),
            Static("Type: " \o PyStr(analysis.token_type), "value")>>
          \o ValueLine(analysis, "key_id", "Key ID")
          \o ValueLine(analysis, "issuer", "Issuer")
          \o ValueLine(analysis, "subject", "Subject")
          \o ValueLine(analysis, "audience", "Audience")
          \o ValueLine(analysis, "scopes", "Scopes")
          \o issued.v \o expires.v
          \o Section("\nWarnings:", analysis.warnings, "warning: ", "warning-text")
          \o Section("\nInformation:", analysis.info, "info: ", "info-text"))

(* The marks of the warning and information lines, emoji in the source,    *)
(* are written as words.                                                   *)
(* update_output_tabs: three panes are filled; the analysis pane is        *)
(* emptied and then filled, unless building its widgets raises.            *)
OutputTabs(s, parsed_data, widgets) ==
  [screen |-> [s EXCEPT
     !.panes = [header |-> <<Static("JWT Header:", "section-title"),
                             JsonStatic(parsed_data.header)>>,
                payload |-> <<Static("JWT Payload:", "section-title"),
                              JsonStatic(parsed_data.payload)>>,
                signature |-> <<Static("JWT Signature:", "section-title"),
                                Static("Base64 Encoded: " \o parsed_data.signature, "value"),
                                Static("\nNote: Signature verification requires the secret key or public key",
                                       "warning-text")>>,
                analysis |-> IF widgets.ok THEN widgets.v ELSE << >>]],
   raised |-> widgets]

update_output_tabs(s, parsed_data, clock) ==
  OutputTabs(s, parsed_data,
             AnalysisWidgets(parsed_data.analysis,
                             TimeLine(parsed_data.analysis.issued_at, clock, "Issued At"),
                             TimeLine(parsed_data.analysis.expiration, clock, "Expires At")))

show_error(s, error) ==
  [s EXCEPT !.panes = [p \in DOMAIN s.panes |->
                         <<Static("Parse Error: " \o error, "error-text")>>]]

clear_output_tabs(s) ==
  [s EXCEPT !.panes = [p \in DOMAIN s.panes |->
                         <<Static("Parse a JWT token to see the content", "info-text")>>]]

(* self.parse_error = error, with watch_parse_error. *)
SetParseError(s, error) ==
  IF s.parse_error = error THEN s
  ELSE IF error.t = "str" /\ error.s # ""
  THEN show_error([s EXCEPT !.parse_error = error], error.s)
  ELSE [s EXCEPT !.parse_error = error]

(* The except and finally clauses of parse_token. *)
ParseFailed(s, e) ==
  InspectorSetLoading(Notify(SetParseError(s, StrV(e.msg)), "Parse error: " \o e.msg, "error"),
                      FALSE)

ParseShown(shown) ==
  IF ~shown.raised.ok THEN ParseFailed(shown.screen, shown.raised)
  ELSE InspectorSetLoading(Notify(shown.screen, "Token parsed successfully", "information"),
                           FALSE)

(* self.parsed_data = parsed, with watch_parsed_data: the watcher runs     *)
(* when the value differs from the one held.                               *)
SetParsedData(s, parsed, clock) ==
  IF s.parsed_data = parsed THEN [screen |-> s, raised |-> Ok(<< >>)]
  ELSE update_output_tabs([s EXCEPT !.parsed_data = parsed], parsed, clock)

ParseTried(s, parsed, clock) ==
  IF ~parsed.ok THEN ParseFailed(s, parsed)
  ELSE ParseShown(SetParsedData(s, parsed.v, clock))

(* The body of parse_token on the screen s. *)
parse_token_body(s, clock) ==
  IF Strip(s.jwt_token) = ""
  THEN Notify(s, "Please enter a JWT token", "warning")
  ELSE ParseTried(SetParseError(InspectorSetLoading(s, TRUE), Null),
                  parse_jwt_token(Strip(s.jwt_token), clock.utc).r, clock)


(* What CLIBridge.execute_command and list_tokens can return: the exit     *)
(* code's success with no output, with text, with parsed JSON of any type, *)
(* or with the list parse_tokens_output builds.                            *)
BridgeData ==
  { Null, StrV(""), StrV("No stored tokens found"), ObjV("tokens" :> ArrV(<< >>)),
    ArrV(<< >>) }
  \cup { ArrV(tokens) : tokens \in TokenLists }

ListTokensResults ==
  { [success |-> ok, data |-> data, error |-> error] :
      ok \in BOOLEAN, data \in BridgeData, error \in {Null, StrV("command failed")} }

(***************************************************************************)
(* State.  call and ret: one call of one of the functions (the function's  *)
(* name and its arguments) and what it returned or raised.  screen: the    *)
(* dashboard screen's reactive attributes and widgets.  worker: the        *)
(* load_dashboard_data worker, its position and its local variables.       *)
(* clock: the wall clock.  store: the token list the CLI has stored.       *)
(***************************************************************************)
VARIABLES call, ret, screen, worker, clock, store

vars == <<call, ret, screen, worker, clock, store>>

Pending == [t |-> "pending"]

Done(result, made) == [t |-> "done", r |-> result, calls |-> made]

(* The screen as compose() builds it. *)
InitialScreen ==
  [loading |-> FALSE, stats |-> EmptyDict, tokens |-> << >>, providers |-> << >>,
   status_text |-> "", loading_indicator |-> FALSE,
   cards |-> <<"0", "0", "0", "Ready">>, table |-> << >>, notifications |-> << >>]

IdleWorker ==
  [pc |-> "idle", loads |-> 0, tokens |-> << >>,
   result |-> [success |-> FALSE, data |-> Null, error |-> Null]]

Init ==
  /\ ret = Pending
  /\ screen = InitialScreen
  /\ worker = IdleWorker
  /\ clock = [utc |-> BaseTime, local |-> 0]
  /\ store = << >>
  /\ \/ \E tok \in Tokens, n \in Nows :
          call = [fn |-> "parse_jwt_token", token |-> tok, current_time |-> n]
     \/ \E seg \in Segments :
          call = [fn |-> "decode_jwt_part", encoded_part |-> seg]
     \/ \E h \in HeaderObjects, p \in PayloadObjects, n \in Nows :
          call = [fn |-> "analyze_jwt", header |-> h, payload |-> p, current_time |-> n]
     \/ \E fn \in {"get_token_status", "format_expiration", "update_table"},
           tok \in TokenRecords, c \in Clocks :
          call = [fn |-> fn, token |-> tok, clock |-> c]
     \/ \E result \in ListTokensResults :
          call = [fn |-> "get_tokens", result |-> result]
     \/ \E tok \in IssuedRecords, c \in Clocks :
          call = [fn |-> "format_issued_time", token |-> tok, clock |-> c]
     \/ \E tokens \in TokenLists, c \in Clocks :
          call = [fn |-> "count_expired_tokens", tokens |-> tokens, clock |-> c]
     \/ \E tok \in TokenRecords, c \in Clocks, later \in Nows :
          /\ c.utc <= later
          /\ call = [fn |-> "update_recent_tokens_table", token |-> tok, clock |-> c,
                     later |-> [c EXCEPT !.utc = later]]

ParseJwtToken ==
  /\ call.fn = "parse_jwt_token"
  /\ ret = Pending
  /\ ret' = [t |-> "done"] @@ parse_jwt_token(call.token, call.current_time)
  /\ UNCHANGED <<call, screen, worker, clock, store>>

DecodeJwtPart ==
  /\ call.fn = "decode_jwt_part"
  /\ ret = Pending
  /\ ret' = Done(decode_jwt_part(call.encoded_part), << >>)
  /\ UNCHANGED <<call, screen, worker, clock, store>>

AnalyzeJwt ==
  /\ call.fn = "analyze_jwt"
  /\ ret = Pending
  /\ ret' = Done(analyze_jwt(call.header, call.payload, call.current_time), << >>)
  /\ UNCHANGED <<call, screen, worker, clock, store>>

GetTokenStatus ==
  /\ call.fn = "get_token_status"
  /\ ret = Pending
  /\ ret' = Done(get_token_status(call.token, call.clock), << >>)
  /\ UNCHANGED <<call, screen, worker, clock, store>>

FormatExpiration ==
  /\ call.fn = "format_expiration"
  /\ ret = Pending
  /\ ret' = Done(format_expiration(call.token, call.clock), << >>)
  /\ UNCHANGED <<call, screen, worker, clock, store>>

FormatIssuedTime ==
  /\ call.fn = "format_issued_time"
  /\ ret = Pending
  /\ ret' = Done(format_issued_time(call.token, call.clock), << >>)
  /\ UNCHANGED <<call, screen, worker, clock, store>>

(* OAuthClient.get_tokens with list_tokens returning call.result. *)
GetTokens ==
  /\ call.fn = "get_tokens"
  /\ ret = Pending
  /\ ret' = Done(Ok(get_tokens(call.result)), << >>)
  /\ UNCHANGED <<call, screen, worker, clock, store>>

(* DashboardScreen.count_expired_tokens with self.tokens = call.tokens. *)
CountExpiredTokens ==
  /\ call.fn = "count_expired_tokens"
  /\ ret = Pending
  /\ ret' = Done(count_expired_tokens(call.tokens, call.clock), << >>)
  /\ UNCHANGED <<call, screen, worker, clock, store>>

(* The row DashboardScreen.update_recent_tokens_table adds for the one     *)
(* record, the clock read at call.clock by get_token_status and at         *)
(* call.later by the calls after it.                                       *)
UpdateRecentTokensTable ==
  /\ call.fn = "update_recent_tokens_table"
  /\ ret = Pending
  /\ ret' = Done(RowCells(call.token, call.clock, call.later), << >>)
  /\ UNCHANGED <<call, screen, worker, clock, store>>

(* TokensScreen.update_table on a list of the one record. *)
UpdateTable ==
  /\ call.fn = "update_table"
  /\ ret = Pending
  /\ ret' = Done(update_table_row(call.token, call.clock), << >>)
  /\ UNCHANGED <<call, screen, worker, clock, store>>

Next ==
  \/ ParseJwtToken
  \/ DecodeJwtPart
  \/ AnalyzeJwt
  \/ GetTokenStatus
  \/ FormatExpiration
  \/ FormatIssuedTime
  \/ GetTokens
  \/ CountExpiredTokens
  \/ UpdateRecentTokensTable
  \/ UpdateTable

Spec == Init /\ [][Next]_vars

(***************************************************************************)
(* The dashboard screen.  load_dashboard_data is an exclusive worker:      *)
(* starting it cancels the one that is running, and the cancelled one,     *)
(* suspended in an await, runs its finally clause first.  The worker's     *)
(* steps are the stretches between its awaits.                             *)
(***************************************************************************)
DashboardInit ==
  /\ call = [fn |-> "none"]
  /\ ret = Pending
  /\ screen = InitialScreen
  /\ worker = IdleWorker
  /\ clock \in {c \in Clocks : c.utc = BaseTime}
  /\ store \in TokenLists

(* self.load_dashboard_data() *)
load_dashboard_data ==
  /\ worker.loads < MaxLoads
  /\ screen' = IF worker.pc \in {"get_tokens", "get_providers"}
               THEN SetLoading(screen, FALSE, clock)
               ELSE screen
  /\ worker' = [worker EXCEPT !.pc = "scheduled", !.loads = @ + 1]
  /\ UNCHANGED <<call, ret, clock, store>>

on_mount ==
  /\ worker.pc = "idle"
  /\ load_dashboard_data

on_refresh_pressed ==
  /\ worker.pc # "idle"
  /\ load_dashboard_data

action_refresh ==
  /\ worker.pc # "idle"
  /\ load_dashboard_data

(* self.loading = True, up to the await of get_tokens. *)
LoadStart ==
  /\ worker.pc = "scheduled"
  /\ screen' = SetLoading(screen, TRUE, clock)
  /\ worker' = [worker EXCEPT !.pc = "get_tokens"]
  /\ UNCHANGED <<call, ret, clock, store>>

(* get_tokens returns; the worker awaits get_providers. *)
LoadTokens ==
  /\ worker.pc = "get_tokens"
  /\ \E result \in BridgeResults(store) :
       worker' = [worker EXCEPT !.pc = "get_providers", !.result = result,
                                !.tokens = get_tokens(result)]
  /\ UNCHANGED <<call, ret, screen, clock, store>>

(* get_providers returns; the rest of load_dashboard_data. *)
LoadProviders ==
  /\ worker.pc = "get_providers"
  /\ \E providers \in ProviderLists : \E result \in BridgeResults(providers) :
       screen' = LoadFetched(screen, worker.tokens, get_providers(result), clock)
  /\ worker' = [worker EXCEPT !.pc = "finished"]
  /\ UNCHANGED <<call, ret, clock, store>>

Tick ==
  /\ clock.utc < BaseTime + MaxTicks
  /\ clock' = [clock EXCEPT !.utc = @ + 1]
  /\ UNCHANGED <<call, ret, screen, worker, store>>

DashboardNext ==
  \/ on_mount
  \/ on_refresh_pressed
  \/ action_refresh
  \/ LoadStart
  \/ LoadTokens
  \/ LoadProviders
  \/ Tick

DashboardSpec == DashboardInit /\ [][DashboardNext]_vars

(***************************************************************************)
(* The inspector screen as a state machine.  parse_token is a worker       *)
(* (@work(exclusive=True)): a call schedules it and cancels the one still  *)
(* waiting to run; its body holds no await and runs in one step.  worker   *)
(* keeps the position of the worker, the number of events handled, and of  *)
(* the body's last run the local token and the clock reading of           *)
(* analyze_jwt.                                                            *)
(***************************************************************************)
MaxEvents == 6

(* What the user types or pastes into the input. *)
InspectorTexts ==
  { " e30.e30.sig ", "###.###.sig",
    "e30.eyJpc3MiOiJpZHAiLCJleHAiOjE3MDAwMDAwMDB9.sig" }  \* exp 1700000000

InspectorWorker == [pc |-> "idle", events |-> 0, token |-> "", at |-> 0]

InspectorInit ==
  /\ call = [fn |-> "none"]
  /\ ret = Pending
  /\ screen = InspectorScreen
  /\ worker = InspectorWorker
  /\ clock \in {c \in Clocks : c.utc = BaseTime}
  /\ store = << >>

Handled == [worker EXCEPT !.events = @ + 1]

(* self.parse_token(), called by on_parse_pressed and action_parse_token. *)
parse_token ==
  /\ worker.events < MaxEvents
  /\ worker' = [Handled EXCEPT !.pc = "scheduled"]
  /\ UNCHANGED <<call, ret, screen, clock, store>>

(* The worker runs the body of parse_token. *)
ParseToken ==
  /\ worker.pc = "scheduled"
  /\ screen' = parse_token_body(screen, clock)
  /\ worker' = [worker EXCEPT !.pc = "idle", !.token = Strip(screen.jwt_token),
                              !.at = clock.utc]
  /\ UNCHANGED <<call, ret, clock, store>>

(* Called by on_clear_pressed and action_clear_input. *)
clear_input ==
  /\ worker.events < MaxEvents
  /\ screen' = Notify(clear_output_tabs(
                        SetParseError([screen EXCEPT !.token_input = "", !.jwt_token = "",
                                                     !.parsed_data = Null], Null)),
                      "Input cleared", "information")
  /\ worker' = Handled
  /\ UNCHANGED <<call, ret, clock, store>>

(* Called by on_sample_pressed and action_paste_sample. *)
load_sample_token ==
  /\ worker.events < MaxEvents
  /\ screen' = Notify([screen EXCEPT !.token_input = SAMPLE_TOKEN, !.jwt_token = SAMPLE_TOKEN],
                      "Sample token loaded", "information")
  /\ worker' = Handled
  /\ UNCHANGED <<call, ret, clock, store>>

(* The user changes the text of the input; the handler of TextArea.Changed *)
(* copies it to jwt_token.                                                 *)
on_token_input_changed ==
  /\ worker.events < MaxEvents
  /\ \E text \in InspectorTexts \ {screen.token_input} :
       screen' = [screen EXCEPT !.token_input = text, !.jwt_token = text]
  /\ worker' = Handled
  /\ UNCHANGED <<call, ret, clock, store>>

InspectorNext ==
  \/ parse_token
  \/ ParseToken
  \/ clear_input
  \/ load_sample_token
  \/ on_token_input_changed
  \/ Tick

InspectorSpec == InspectorInit /\ [][InspectorNext]_vars

(***************************************************************************)
(* Properties of the inspector's functions.                                *)
(***************************************************************************)
Returned(fn) == call.fn = fn /\ ret.t = "done"

DotCount(s) == Cardinality({k \in 1..Len(s) : CharAt(s, k) = "."})

IsPrefix(p, s) == Len(p) <= Len(s) /\ SubSeq(s, 1, Len(p)) = p

FormatError ==
  Raise("ValueError", "Invalid JWT format. JWT should have 3 parts separated by dots.")

(* The three segments of a token with exactly two dots. *)
Segment(token, n) == Split(token, ".")[n]

(* C1: analyze_jwt never fails: for every header object and payload object *)
(* it returns an analysis, and the exp of the payload, whatever its type,  *)
(* is passed through as the analysis's expiration.                         *)
C1_AnalyzeNeverFails ==
  Returned("analyze_jwt") =>
    /\ ret.r.ok
    /\ ret.r.v.expiration = Get(call.payload, "exp", Null)

(* C2: parse_jwt_token raises the format error for every token that does   *)
(* not hold exactly two dots, and then it has decoded no segment and run   *)
(* no analysis.                                                            *)
C2_FormatErrorUnlessThreeParts ==
  (Returned("parse_jwt_token") /\ DotCount(call.token) # 2) =>
    /\ ret.r = FormatError
    /\ ret.calls = << >>

C2_Witness ==
  /\ Returned("parse_jwt_token")
  /\ DotCount(call.token) = 3
  /\ Segment(call.token, 4) = ""
  /\ ret.r = FormatError

(* C3: for every token of three segments whose header segment or payload   *)
(* segment fails base64url decoding, UTF-8 decoding or JSON parsing,        *)
(* parse_jwt_token raises the decoding error of that segment, returns no    *)
(* decoded token and runs no analysis.                                      *)
FailsDecoding(segment) ==
  \/ ~urlsafe_b64decode(AddPadding(segment)).ok
  \/ ~utf8_decode(urlsafe_b64decode(AddPadding(segment)).v).ok
  \/ ~json_loads(utf8_decode(urlsafe_b64decode(AddPadding(segment)).v).v).ok

C3_BadSegmentFails ==
  (/\ Returned("parse_jwt_token")
   /\ DotCount(call.token) = 2
   /\ FailsDecoding(Segment(call.token, 1)) \/ FailsDecoding(Segment(call.token, 2))) =>
    /\ ~ret.r.ok
    /\ ret.r.exc = "ValueError"
    /\ IsPrefix("Failed to decode JWT: Failed to decode part: ", ret.r.msg)
    /\ \A n \in 1..Len(ret.calls) : ret.calls[n] # "analyze_jwt"

C3_Witness ==
  /\ Returned("parse_jwt_token")
  /\ DotCount(call.token) = 2
  /\ ~FailsDecoding(Segment(call.token, 1))
  /\ FailsDecoding(Segment(call.token, 2))
  /\ ~ret.r.ok

(* C4: decode_jwt_part never returns a value that is not a JSON object: a   *)
(* segment that holds an array, a string, a number, a boolean or null       *)
(* fails.                                                                   *)
C4_NonObjectFails ==
  (Returned("decode_jwt_part") /\ ret.r.ok) => ret.r.v.t = "obj"

(* The token with the header and payload segments of the call's token      *)
(* exchanged, parsed at the same clock reading.                            *)
Exchanged ==
  parse_jwt_token(Segment(call.token, 2) \o "." \o Segment(call.token, 1) \o "."
                  \o Segment(call.token, 3), call.current_time).r

BadHeaderGoodPayload ==
  /\ Returned("parse_jwt_token")
  /\ DotCount(call.token) = 2
  /\ ~decode_jwt_part(Segment(call.token, 1)).ok
  /\ decode_jwt_part(Segment(call.token, 2)).ok

C6_RawPartsVerbatim ==
  (Returned("parse_jwt_token") /\ ret.r.ok) =>
    /\ ret.r.v.raw_parts.header \o "." \o ret.r.v.raw_parts.payload \o "."
         \o ret.r.v.raw_parts.signature = call.token
    /\ DotCount(ret.r.v.raw_parts.header) = 0
    /\ DotCount(ret.r.v.raw_parts.payload) = 0
    /\ DotCount(ret.r.v.raw_parts.signature) = 0
    /\ ret.r.v.signature = ret.r.v.raw_parts.signature

C6_Witness ==
  /\ Returned("parse_jwt_token")
  /\ ret.r.ok
  /\ ret.r.v.signature = "s!g#"
  /\ ret.r.v.raw_parts.header # ret.r.v.raw_parts.payload

(***************************************************************************)
(* Properties of the listings.  The instant a value denotes is read off    *)
(* here from the value itself, apart from the parsing of the code: an int  *)
(* or a float is the epoch second, a text is looked up in the two tables   *)
(* of ISO-8601 texts, those that name their offset from UTC and those      *)
(* that do not and so mean local time.                                     *)
(***************************************************************************)
IsoZoned ==
  "2023-11-14T22:13:19Z" :> 1699999999
  @@ "2023-11-14T22:13:20Z" :> 1700000000
  @@ "2023-11-14T23:13:20Z" :> 1700003600
  @@ "2023-11-14T23:13:20+01:00" :> 1700000000
  @@ "2023-11-14T21:13:20Z" :> 1699996400
  @@ "2023-11-13T22:13:20Z" :> 1699913600

IsoLocal ==
  "2023-11-14T22:13:20" :> 1700000000
  @@ "2023-11-14T23:13:20" :> 1700003600
  @@ "2023-11-14T21:13:20" :> 1699996400

ExpiresAt == Get(call.token, "expires_at", Null)

HasInstant(value) ==
  \/ value.t = "int"
  \/ value.t = "float" /\ value.sp = "finite" /\ value.e \in 0..8
  \/ value.t = "str" /\ value.s \in DOMAIN IsoZoned \cup DOMAIN IsoLocal

InstantOf(value, at) ==
  CASE value.t = "int" -> value.n
    [] value.t = "float" -> value.m * Pow10(value.e)
    [] value.t = "str" /\ value.s \in DOMAIN IsoZoned -> IsoZoned[value.s]
    [] value.t = "str" /\ value.s \in DOMAIN IsoLocal -> IsoLocal[value.s] - at.local

(* Present, and no timestamp: a text, not the empty one, that is no        *)
(* ISO-8601 text, a list, a dict.                                          *)
Unparseable(value) ==
  \/ value.t = "str" /\ value.s \notin {""} \cup DOMAIN IsoZoned \cup DOMAIN IsoLocal
  \/ value.t \in {"arr", "obj"}

(* C7: a record whose expires_at denotes an instant at or before now is    *)
(* Expired, in the dashboard's get_token_status and in the tokens table,   *)
(* whatever the representation: an epoch number, 0 and negative numbers    *)
(* included, or an ISO-8601 text with or without a Z.                      *)
C7_ExpiredAtOrBeforeNow ==
  /\ (Returned("get_token_status") /\ HasInstant(ExpiresAt)
      /\ InstantOf(ExpiresAt, call.clock) <= call.clock.utc)
       => ret.r = Ok("Expired")
  /\ (Returned("update_table") /\ HasInstant(ExpiresAt)
      /\ InstantOf(ExpiresAt, call.clock) <= call.clock.utc)
       => (ret.r.ok /\ ret.r.v.status = "Expired")

(* C8: for a record whose expires_at denotes an instant t after now,       *)
(* get_token_status returns Expiring when t <= now + 1 hour, the hour      *)
(* itself included, and Active when t > now + 1 hour, and nothing else.    *)
C8_ExpiringWithinTheHour ==
  (Returned("get_token_status") /\ HasInstant(ExpiresAt)
   /\ InstantOf(ExpiresAt, call.clock) > call.clock.utc)
    => ret.r = Ok(IF InstantOf(ExpiresAt, call.clock) <= call.clock.utc + 3600
                  THEN "Expiring" ELSE "Active")

C8_Witness ==
  /\ Returned("get_token_status")
  /\ HasInstant(ExpiresAt)
  /\ InstantOf(ExpiresAt, call.clock) = call.clock.utc + 3600
  /\ ret.r = Ok("Expiring")

(* C9: for a record whose expires_at is present and is no timestamp, no    *)
(* listing raises, the status is Unknown and the label is the value as a   *)
(* string: in get_token_status and format_expiration of the dashboard and  *)
(* in the tokens table.                                                    *)
C9_UnparseableIsUnknown ==
  /\ (Returned("get_token_status") /\ Unparseable(ExpiresAt))
       => ret.r = Ok("Unknown")
  /\ (Returned("format_expiration") /\ Unparseable(ExpiresAt))
       => ret.r = Ok(PyStr(ExpiresAt))
  /\ (Returned("update_table") /\ Unparseable(ExpiresAt))
       => /\ ret.r.ok
          /\ ret.r.v.status = "Unknown"
          /\ ret.r.v.expires = PyStr(ExpiresAt)

(* C10: when load_dashboard_data has run to its end on a fetch that        *)
(* succeeded, the screen's tokens are the fetched list and the table       *)
(* holds a row for every record of it, whatever the records' expires_at.   *)
Fetched == worker.result.data.a

LoadedFetch ==
  /\ worker.pc = "finished"
  /\ worker.result.success
  /\ worker.result.data.t = "arr"

C10_ListingAlwaysRenders ==
  LoadedFetch =>
    /\ screen.tokens = Fetched
    /\ Fetched # << >> =>
         /\ Len(screen.table) = Len(Fetched)
         /\ \A i \in 1..Len(Fetched) : \E j \in 1..Len(screen.table) :
              screen.table[j].provider = Get(Fetched[i], "provider", StrV("Unknown"))

(***************************************************************************)
(* Properties of analyze_jwt.  The value of a numeric exp is read off here *)
(* from the payload: an int, or a float without a fraction.                *)
(***************************************************************************)
Exp == Get(call.payload, "exp", Null)

NumericExp ==
  \/ Exp.t = "int" /\ Exp.n # 0
  \/ Exp.t = "float" /\ Exp.sp = "finite" /\ Exp.e >= 0 /\ Exp.m # 0

ExpValue == IF Exp.t = "int" THEN Exp.n ELSE Exp.m * 10 ^ Exp.e

Has(seq, x) == \E i \in 1..Len(seq) : seq[i] = x

ExpiresInEntries(info) == {i \in 1..Len(info) : IsPrefix("Token expires in ", info[i])}

(* C11: for a numeric exp other than 0 the warning 'Token has expired' is  *)
(* among the warnings exactly when exp < now; at exp = now the token is    *)
(* not reported expired, and an expired token gets no 'expires in' entry.  *)
C11_ExpiredIffBeforeNow ==
  (Returned("analyze_jwt") /\ NumericExp) =>
    /\ ret.r.ok
    /\ Has(ret.r.v.warnings, "Token has expired") <=> ExpValue < call.current_time
    /\ ExpValue < call.current_time => ExpiresInEntries(ret.r.v.info) = {}

C11_Witness ==
  /\ Returned("analyze_jwt")
  /\ NumericExp
  /\ ExpValue = call.current_time
  /\ ret.r.ok
  /\ ~Has(ret.r.v.warnings, "Token has expired")

(* C12: for a numeric exp >= now the info holds exactly one entry 'Token   *)
(* expires in N seconds', with N = exp - now, and the warnings hold        *)
(* neither 'No expiration' nor 'Token has expired'.                        *)
SecondsLeft ==
  IF Exp.t = "int" THEN ToString(ExpValue - call.current_time)
  ELSE ToString(ExpValue - call.current_time) \o ".0"

C12_ExpiresInSeconds ==
  (Returned("analyze_jwt") /\ NumericExp /\ ExpValue >= call.current_time) =>
    /\ ret.r.ok
    /\ Cardinality(ExpiresInEntries(ret.r.v.info)) = 1
    /\ Has(ret.r.v.info, "Token expires in " \o SecondsLeft \o " seconds")
    /\ ~Has(ret.r.v.warnings, "Token has expired")
    /\ ~Has(ret.r.v.warnings, "No expiration (exp) claim found")

C12_Witness ==
  /\ Returned("analyze_jwt")
  /\ NumericExp
  /\ ExpValue = call.current_time + 3600
  /\ Get(call.header, "alg", Null) = StrV("HS256")
  /\ ret.r.ok
  /\ ret.r.v.info = <<"Token expires in 3600 seconds", "HMAC algorithm - symmetric key">>

(* C13: the warnings of every analysis are some of the four findings, each *)
(* at most once, in the order algorithm-is-none, no-issuer, no-expiration, *)
(* token-has-expired; the info entries are some of expires-in and          *)
(* algorithm-family, each at most once, in that order.                     *)
RuleWarnings ==
  << "Algorithm is 'none' - this is insecure!", "No issuer (iss) claim found",
     "No expiration (exp) claim found", "Token has expired" >>

FamilyEntries ==
  { "HMAC algorithm - symmetric key", "RSA algorithm - asymmetric key",
    "ECDSA algorithm - asymmetric key" }

InfoKind(entry) ==
  IF IsPrefix("Token expires in ", entry) THEN "expires-in"
  ELSE IF entry \in FamilyEntries THEN "algorithm-family"
  ELSE "other"

IsSubsequence(part, whole) ==
  \E f \in [1..Len(part) -> 1..Len(whole)] :
    /\ \A i \in 1..Len(part) : whole[f[i]] = part[i]
    /\ \A i, j \in 1..Len(part) : i < j => f[i] < f[j]

C13_FindingsInRuleOrder ==
  (Returned("analyze_jwt") /\ ret.r.ok) =>
    /\ IsSubsequence(ret.r.v.warnings, RuleWarnings)
    /\ IsSubsequence([i \in 1..Len(ret.r.v.info) |-> InfoKind(ret.r.v.info[i])],
                     <<"expires-in", "algorithm-family">>)

C13_Witness ==
  /\ Returned("analyze_jwt")
  /\ ret.r.ok
  /\ ret.r.v.warnings = <<"No issuer (iss) claim found", "Token has expired">>
  /\ ret.r.v.info = <<"HMAC algorithm - symmetric key">>

(* C14: for a header with alg "none" and a payload with neither iss nor    *)
(* exp the warnings are algorithm-is-none, no-issuer, no-expiration, in    *)
(* that order and nothing else, and the info is empty.                     *)
C14_NoneAlgorithmBarePayload ==
  (/\ Returned("analyze_jwt")
   /\ Get(call.header, "alg", Null) = StrV("none")
   /\ "iss" \notin DOMAIN call.payload.o
   /\ "exp" \notin DOMAIN call.payload.o) =>
    /\ ret.r.ok
    /\ ret.r.v.warnings = SubSeq(RuleWarnings, 1, 3)
    /\ ret.r.v.info = << >>

C14_Witness ==
  /\ Returned("analyze_jwt")
  /\ Get(call.header, "alg", Null) = StrV("none")
  /\ DOMAIN call.payload.o = {"sub", "scope"}
  /\ ret.r.ok
  /\ Len(ret.r.v.warnings) = 3

(* C15: the info holds at most one algorithm-family entry: the HMAC one    *)
(* for HS256, HS384, HS512, the RSA one for RS256, RS384, RS512, the ECDSA *)
(* one for ES256, ES384, ES512, matched as whole strings; any other alg    *)
(* (missing, "none", "PS256", another letter case, no string) gives none.  *)
FamilyOf ==
  "HS256" :> "HMAC algorithm - symmetric key"
  @@ "HS384" :> "HMAC algorithm - symmetric key"
  @@ "HS512" :> "HMAC algorithm - symmetric key"
  @@ "RS256" :> "RSA algorithm - asymmetric key"
  @@ "RS384" :> "RSA algorithm - asymmetric key"
  @@ "RS512" :> "RSA algorithm - asymmetric key"
  @@ "ES256" :> "ECDSA algorithm - asymmetric key"
  @@ "ES384" :> "ECDSA algorithm - asymmetric key"
  @@ "ES512" :> "ECDSA algorithm - asymmetric key"

Alg == Get(call.header, "alg", Null)

FamilyInfo(info) == SelectSeq(info, LAMBDA entry : entry \in FamilyEntries)

C15_AlgorithmFamilyByExactMatch ==
  (Returned("analyze_jwt") /\ ret.r.ok) =>
    FamilyInfo(ret.r.v.info) =
      IF Alg.t = "str" /\ Alg.s \in DOMAIN FamilyOf THEN <<FamilyOf[Alg.s]>> ELSE << >>

C15_Witness ==
  /\ Returned("analyze_jwt")
  /\ ret.r.ok
  /\ Alg = StrV("hs256")
  /\ ret.r.v.info = << >>

(***************************************************************************)
(* Properties of the labels of the listings.                               *)
(***************************************************************************)
(* Seconds from the clock reading of the call to the expiry of its record. *)
Remaining == InstantOf(ExpiresAt, call.clock) - call.clock.utc

BucketLabel(r) ==
  IF r >= 86400 THEN ToString(r \div 86400) \o "d " \o ToString((r % 86400) \div 3600) \o "h"
  ELSE IF r >= 3600 THEN ToString(r \div 3600) \o "h " \o ToString((r % 3600) \div 60) \o "m"
  ELSE ToString(r \div 60) \o "m"

(* C16: for a record that expires r > 0 seconds from now the label is      *)
(* "{d}d {h}h" from one day on, "{h}h {m}m" from one hour on, the hour     *)
(* itself included ("1h 0m"), and "{m}m" below the hour, in the dashboard  *)
(* (format_expiration) and in the tokens table alike.                      *)
C16_LabelBuckets ==
  /\ (Returned("format_expiration") /\ HasInstant(ExpiresAt) /\ Remaining > 0)
       => ret.r = Ok(BucketLabel(Remaining))
  /\ (Returned("update_table") /\ HasInstant(ExpiresAt) /\ Remaining > 0)
       => (ret.r.ok /\ ret.r.v.expires = BucketLabel(Remaining))

(* C17: a record that a listing classifies as Expired has the expiry label *)
(* "Expired" in that listing: the dashboard's row (status from             *)
(* get_token_status, label from format_expiration) and the tokens table's  *)
(* row.                                                                    *)
C17_ExpiredLabel ==
  /\ (Returned("format_expiration")
      /\ get_token_status(call.token, call.clock) = Ok("Expired"))
       => ret.r = Ok("Expired")
  /\ (Returned("update_table") /\ ret.r.ok /\ ret.r.v.status = "Expired")
       => ret.r.v.expires = "Expired"

(* A record without expiry: the key is missing or its value is None.       *)
NoExpiry == "expires_at" \notin DOMAIN call.token.o \/ call.token.o["expires_at"] = Null

(* C18: for a record with no expires_at (key missing or null) the status   *)
(* is Active, the dashboard's label "Never" and the tokens table's label   *)
(* "N/A", at every clock reading and without a parse that could fail.      *)
C18_NoExpiryIsActive ==
  /\ (Returned("get_token_status") /\ NoExpiry) => ret.r = Ok("Active")
  /\ (Returned("format_expiration") /\ NoExpiry) => ret.r = Ok("Never")
  /\ (Returned("update_table") /\ NoExpiry)
       => (ret.r.ok /\ ret.r.v.status = "Active" /\ ret.r.v.expires = "N/A")

C18_Witness ==
  /\ Returned("get_token_status")
  /\ "expires_at" \in DOMAIN call.token.o
  /\ call.token.o["expires_at"] = Null
  /\ call.clock.local # 0
  /\ ret.r = Ok("Active")

IssuedAtValue == Get(call.token, "issued_at", Null)

(* Seconds from the issue of the call's record to its clock reading.       *)
Elapsed == call.clock.utc - InstantOf(IssuedAtValue, call.clock)

ElapsedLabel(e) ==
  IF e >= 86400 THEN ToString(e \div 86400) \o "d ago"
  ELSE IF e >= 3600 THEN ToString(e \div 3600) \o "h ago"
  ELSE ToString(e \div 60) \o "m ago"

(* C19: for a record issued e >= 0 seconds before now format_issued_time   *)
(* returns "{e div 86400}d ago" from one day on, "{e div 3600}h ago" from  *)
(* one hour on, the hour itself included, and "{e div 60}m ago" below the  *)
(* hour; the number is the floor of the elapsed time in its unit.          *)
C19_ElapsedBuckets ==
  (Returned("format_issued_time") /\ HasInstant(IssuedAtValue) /\ Elapsed >= 0)
    => ret.r = Ok(ElapsedLabel(Elapsed))

(***************************************************************************)
(* Properties of decode_jwt_part.                                          *)
(***************************************************************************)
(* The segment with "=" appended up to the next multiple of four.          *)
PaddedForm(segment) ==
  CASE Len(segment) % 4 = 0 -> segment
    [] Len(segment) % 4 = 1 -> segment \o "==="
    [] Len(segment) % 4 = 2 -> segment \o "=="
    [] Len(segment) % 4 = 3 -> segment \o "="

(* C20: decode_jwt_part pads its input with "=" up to the next multiple of *)
(* four and no further: a segment of length 0, 2 or 3 mod 4 decodes as its *)
(* padded form does, and every segment of length 1 mod 4 fails.            *)
C20_PaddingToMultipleOfFour ==
  Returned("decode_jwt_part") =>
    /\ Len(call.encoded_part) % 4 # 1
         => ret.r = decode_jwt_part(PaddedForm(call.encoded_part))
    /\ Len(call.encoded_part) % 4 = 1 => ~ret.r.ok

(***************************************************************************)
(* Properties of parse_jwt_token on malformed and on sample input.         *)
(***************************************************************************)
Base64UrlChars == "ABCDEFGHIJKLMNOPQRSTUVWXYZabcdefghijklmnopqrstuvwxyz0123456789-_"

IsBase64UrlChar(c) == \E k \in 1..Len(Base64UrlChars) : SubSeq(Base64UrlChars, k, k) = c

(* Base64url characters, then nothing but "=". *)
InBase64Url(segment) ==
  \E n \in 0..Len(segment) :
    /\ \A k \in 1..n : IsBase64UrlChar(SubSeq(segment, k, k))
    /\ \A k \in (n + 1)..Len(segment) : SubSeq(segment, k, k) = "="

(* C21: parse_jwt_token fails for every token of three segments whose      *)
(* header or payload segment holds a character outside the base64url       *)
(* alphabet (A-Z, a-z, 0-9, "-", "_", trailing "="): no such character is  *)
(* dropped to let the rest of the segment decode.                          *)
C21_StrayCharacterFails ==
  (/\ Returned("parse_jwt_token")
   /\ DotCount(call.token) = 2
   /\ ~InBase64Url(Segment(call.token, 1)) \/ ~InBase64Url(Segment(call.token, 2)))
    => ~ret.r.ok

(* C22: every token that parse_jwt_token accepts is a compact token: it    *)
(* holds exactly two dots and its three segments are not empty; a token    *)
(* with an empty signature segment such as "h.p." is not accepted.         *)
C22_AcceptedIsCompact ==
  (Returned("parse_jwt_token") /\ ret.r.ok) =>
    /\ DotCount(call.token) = 2
    /\ \A n \in 1..3 : Segment(call.token, n) # ""

(* C23: the sample token of load_sample_token parses at every now after    *)
(* 1616242622: header alg "RS256" and kid "1234567890", payload iss        *)
(* "https://example.com" and exp 1616242622; the warnings hold 'Token has  *)
(* expired' and neither 'No issuer' nor 'No expiration'; the info holds    *)
(* the RSA entry and no 'Token expires in' entry.                          *)
C23_SampleTokenDecodes ==
  (Returned("parse_jwt_token") /\ call.token = SAMPLE_TOKEN /\ call.current_time > 1616242622)
    => /\ ret.r.ok
       /\ Get(ret.r.v.header, "alg", Null) = StrV("RS256")
       /\ Get(ret.r.v.header, "kid", Null) = StrV("1234567890")
       /\ Get(ret.r.v.payload, "iss", Null) = StrV("https://example.com")
       /\ Get(ret.r.v.payload, "exp", Null) = IntV(1616242622)
       /\ Has(ret.r.v.analysis.warnings, "Token has expired")
       /\ ~Has(ret.r.v.analysis.warnings, "No issuer (iss) claim found")
       /\ ~Has(ret.r.v.analysis.warnings, "No expiration (exp) claim found")
       /\ Has(ret.r.v.analysis.info, "RSA algorithm - asymmetric key")
       /\ ExpiresInEntries(ret.r.v.analysis.info) = {}

C23_Witness ==
  /\ Returned("parse_jwt_token")
  /\ call.token = SAMPLE_TOKEN
  /\ call.current_time > 1616242622
  /\ ret.r.ok
  /\ ret.r.v.analysis.warnings = <<"Token has expired">>
  /\ ret.r.v.signature = "signature-placeholder"

(***************************************************************************)
(* Properties of OAuthClient.get_tokens.                                   *)
(***************************************************************************)
(* C24: get_tokens returns the bridge's data, the same records in the same *)
(* order, when the result has success true and data that is a list, and    *)
(* the empty list in every other case; it never returns a non-list.        *)
C24_GetTokensListOrEmpty ==
  Returned("get_tokens") =>
    /\ ret.r.ok
    /\ (call.result.success /\ call.result.data.t = "arr")
         => ArrV(ret.r.v) = call.result.data
    /\ (~call.result.success \/ call.result.data.t # "arr") => ret.r.v = << >>

C24_Witness ==
  /\ Returned("get_tokens")
  /\ ~call.result.success
  /\ call.result.data.t = "arr"
  /\ Len(call.result.data.a) = 2
  /\ call.result.data.a[1] # call.result.data.a[2]
  /\ ret.r = Ok(<< >>)

(***************************************************************************)
(* Properties of the inspector screen.  The last notification tells what   *)
(* the screen did last: a parse that succeeded, a parse that failed, a     *)
(* clearing of the input.                                                  *)
(***************************************************************************)
LastNotification ==
  IF screen.notifications = << >> THEN ""
  ELSE screen.notifications[Len(screen.notifications)].message

ParsedLast == LastNotification = "Token parsed successfully"

FailedLast == IsPrefix("Parse error: ", LastNotification)

(* What parse_jwt_token gives for the token of the last run of parse_token *)
(* at the clock reading of that run.                                       *)
LatestResult == parse_jwt_token(worker.token, worker.at).r

(* C25: the screen holds at most the result of the latest parse: after a   *)
(* parse that failed parsed_data does not hold the result of an earlier    *)
(* parse, and after a parse that succeeded it is the result for the token  *)
(* parsed last.                                                            *)
C25_OnlyLatestParse ==
  /\ FailedLast => \/ screen.parsed_data = Null
                   \/ LatestResult.ok /\ screen.parsed_data = LatestResult.v
  /\ ParsedLast => (LatestResult.ok /\ screen.parsed_data = LatestResult.v)

ErrorShown ==
  \E n \in 1..4 : \E k \in 1..Len(screen.panes[PANES[n]]) :
    screen.panes[PANES[n]][k].classes = "error-text"

(* C30: when the last thing the screen did is a parse that succeeded, the  *)
(* four panes show the header, payload, signature and analysis of that     *)
(* parse and no error text of an earlier parse, also when the token was    *)
(* parsed successfully before the failure.                                 *)
C30_PanesShowLatestParse ==
  ParsedLast =>
    /\ ~ErrorShown
    /\ screen.panes.header
         = <<Static("JWT Header:", "section-title"), JsonStatic(LatestResult.v.header)>>
    /\ screen.panes.payload
         = <<Static("JWT Payload:", "section-title"), JsonStatic(LatestResult.v.payload)>>
    /\ Len(screen.panes.signature) = 3
    /\ screen.panes.signature[2].text = "Base64 Encoded: " \o Segment(worker.token, 3)
    /\ Len(screen.panes.analysis) >= 3
    /\ screen.panes.analysis[2].text
         = "Algorithm: " \o PyStr(LatestResult.v.analysis.algorithm)

(***************************************************************************)
(* Properties of the expiry findings of analyze_jwt.                       *)
(***************************************************************************)
HasPrefixed(lines, prefix) == \E k \in 1..Len(lines) : IsPrefix(prefix, lines[k])

NoExpiryFound == Has(ret.r.v.warnings, "No expiration (exp) claim found")

ExpiredFound == Has(ret.r.v.warnings, "Token has expired")

ExpiresInFound == HasPrefixed(ret.r.v.info, "Token expires in ")

(* C26: whenever analyze_jwt returns, exactly one of the 'No expiration'   *)
(* warning, the 'Token has expired' warning and the 'Token expires in'     *)
(* info entry is in the result; an exp of 0 gives the 'No expiration'      *)
(* warning alone.                                                          *)
C26_ExactlyOneExpiryOutcome ==
  (Returned("analyze_jwt") /\ ret.r.ok) =>
    /\ NoExpiryFound \/ ExpiredFound \/ ExpiresInFound
    /\ ~(NoExpiryFound /\ ExpiredFound)
    /\ ~(NoExpiryFound /\ ExpiresInFound)
    /\ ~(ExpiredFound /\ ExpiresInFound)
    /\ Get(call.payload, "exp", Null) = IntV(0)
         => (NoExpiryFound /\ ~ExpiredFound /\ ~ExpiresInFound)

C26_Witness ==
  /\ Returned("analyze_jwt")
  /\ ret.r.ok
  /\ Get(call.payload, "exp", Null) = IntV(0)
  /\ NoExpiryFound
  /\ ~ExpiredFound

(***************************************************************************)
(* Properties that compare the listings' functions with one another.       *)
(***************************************************************************)
ExpiredByStatus(tokens, now) ==
  {k \in 1..Len(tokens) : get_token_status(tokens[k], now) = Ok("Expired")}

(* C27: count_expired_tokens returns without raising, and what it returns  *)
(* is the number of records of the list that get_token_status calls        *)
(* Expired at the same clock reading, records with a Z or an offset in     *)
(* expires_at included.                                                    *)
C27_CountMatchesStatus ==
  Returned("count_expired_tokens") =>
    /\ ret.r.ok
    /\ ret.r.v = Cardinality(ExpiredByStatus(call.tokens, call.clock))

(* The label of the tokens table set beside the dashboard's: equal, or     *)
(* "N/A" where the dashboard says "Never".                                 *)
SameLabel(table_label, dashboard_label) ==
  \/ dashboard_label = Ok(table_label)
  \/ dashboard_label = Ok("Never") /\ table_label = "N/A"

(* C28: the row TokensScreen.update_table makes for a record carries the   *)
(* status get_token_status gives and the label format_expiration gives     *)
(* for the same record at the same clock reading, but for "N/A" in the     *)
(* place of "Never".                                                       *)
C28_TablesClassifyAlike ==
  (Returned("update_table") /\ ret.r.ok) =>
    /\ get_token_status(call.token, call.clock) = Ok(ret.r.v.status)
    /\ SameLabel(ret.r.v.expires, format_expiration(call.token, call.clock))

(* C29: in a row of the dashboard's table, whose status is computed at one *)
(* clock reading and whose expiry label at the same or a later one, the    *)
(* status is "Expired" exactly when the label is "Expired", for every      *)
(* record whose expires_at denotes an instant.                             *)
C29_RowCellsAgree ==
  (Returned("update_recent_tokens_table") /\ ret.r.ok /\ HasInstant(ExpiresAt)) =>
    (ret.r.v.status = "Expired" <=> ret.r.v.expires = "Expired")

=============================================================================
